---------------------------- MODULE Spec2Model ----------------------------
(* Model of kitty's text rendering core: the GPU sprite tracker, the       *)
(* per-font sprite cache, font selection, the line renderer and the        *)
(* font configuration entry points of kitty/fonts.c.                       *)
EXTENDS Integers, Sequences, FiniteSets, TLC

(***************************************************************************)
(* Program constants                                                       *)
(***************************************************************************)
MISSING_GLYPH == 4
UINT16_MAX == 65535
SPRITE_MAP_SIZE == 1024
FALLBACK_FONTS_SIZE == 256
MIN_CELL_HEIGHT == 4
MAX_CELL_HEIGHT == 1000
DEFAULT_MAX_ARRAY_LEN == 1000
DEFAULT_MAX_TEXTURE_SIZE == 1000
DEFAULT_MAX_Y == 100

(***************************************************************************)
(* Bounds of the model                                                     *)
(***************************************************************************)
\* send_prerendered_sprites is only taken while x + y + z of the cursor is
\* below this (the cursor is otherwise unbounded)
MaxCursor == 2
\* longest line handed to render_line
MaxLineLen == 2

NULL == "NULL"

MIN(a, b) == IF a < b THEN a ELSE b
MAX(a, b) == IF a > b THEN a ELSE b

(***************************************************************************)
(* Input domains                                                           *)
(***************************************************************************)
\* (max_texture_size, max_array_len) handed to sprite_map_set_limits
LimitArgs == { <<16, 1>> }
\* (cell_width, cell_height) handed to sprite_map_set_layout
LayoutArgs == { <<16, 8>>, <<16, 16>> }
\* the largest texture size and the largest cell size the layout arithmetic is
\* tried on
MaxTexture == 6
MaxCellSize == 8
\* every (max_texture_size, max_array_len) up to MaxTexture
TextureLimits == (0..MaxTexture) \X { 1 }
\* every (cell_width, cell_height) up to MaxCellSize
CellSizes == (1..MaxCellSize) \X (1..MaxCellSize)
\* clear_sprite_map is only taken while x + y + z of the cursor is below this
MaxClearCursor == 4
\* how many keys test_sprite_position_for is given one after the other
MaxAllocKeys == 9
\* limits of an atlas two cells of width 16 wide and two layers deep
SmallLimitArgs == { <<32, 2>> }
\* glyph, extra_glyphs handed to test_sprite_position_for
TestKeys == { << 0, 0 >>, << 1024, 0 >> }
\* number of buffers handed to send_prerendered_sprites
PrerenderedCounts == { 0, 1 }

(***************************************************************************)
(* Sprite tracker                                                          *)
(***************************************************************************)
\* static GPUSpriteTracker sprite_tracker = {...}
InitTracker ==
    [ max_array_len |-> DEFAULT_MAX_ARRAY_LEN,
      max_texture_size |-> DEFAULT_MAX_TEXTURE_SIZE,
      max_y |-> DEFAULT_MAX_Y,
      x |-> 0, y |-> 0, z |-> 0, xnum |-> 0, ynum |-> 0 ]

\* sprite_tracker_set_limits
sprite_tracker_set_limits(t, max_texture_size, max_array_len) ==
    [ t EXCEPT !.max_texture_size = max_texture_size,
               !.max_array_len = max_array_len ]

\* do_increment that wraps x and takes no new row
do_increment_no_row(t) ==
    LET x1 == t.x + 1 IN
    IF x1 >= t.xnum THEN [ tracker |-> [ t EXCEPT !.x = 0 ], error |-> 0 ]
    ELSE [ tracker |-> [ t EXCEPT !.x = x1 ], error |-> 0 ]

\* do_increment that steps down a column before it steps to the next one
do_increment_column_first(t) ==
    LET y1 == t.y + 1 IN
    IF y1 >= t.max_y
    THEN LET x1 == t.x + 1
             ynum1 == t.max_y
         IN IF x1 >= t.xnum
            THEN LET z1 == t.z + 1 IN
                 [ tracker |-> [ t EXCEPT !.x = 0, !.y = 0, !.z = z1, !.ynum = ynum1 ],
                   error |-> IF z1 >= MIN(UINT16_MAX, t.max_array_len) THEN 2 ELSE 0 ]
            ELSE [ tracker |-> [ t EXCEPT !.x = x1, !.y = 0, !.ynum = ynum1 ],
                   error |-> 0 ]
    ELSE [ tracker |-> [ t EXCEPT !.y = y1, !.ynum = MIN(MAX(t.ynum, y1 + 1), t.max_y) ],
           error |-> 0 ]

\* do_increment that leaves ynum as set_layout set it
do_increment_fixed_ynum(t) ==
    LET x1 == t.x + 1 IN
    IF x1 >= t.xnum
    THEN LET y1 == t.y + 1 IN
         IF y1 >= t.max_y
         THEN LET z1 == t.z + 1 IN
              [ tracker |-> [ t EXCEPT !.x = 0, !.y = 0, !.z = z1 ],
                error |-> IF z1 >= MIN(UINT16_MAX, t.max_array_len) THEN 2 ELSE 0 ]
         ELSE [ tracker |-> [ t EXCEPT !.x = 0, !.y = y1 ], error |-> 0 ]
    ELSE [ tracker |-> [ t EXCEPT !.x = x1 ], error |-> 0 ]

\* do_increment: the advanced tracker and the value left in *error
\* (0 stands for "*error not written")
do_increment(t) ==
    LET x1 == t.x + 1 IN
    IF x1 >= t.xnum
    THEN LET y1 == t.y + 1
             ynum1 == MIN(MAX(t.ynum, y1 + 1), t.max_y)
         IN IF y1 >= t.max_y
            THEN LET z1 == t.z + 1 IN
                 [ tracker |-> [ t EXCEPT !.x = 0, !.y = 0, !.z = z1, !.ynum = ynum1 ],
                   error |-> IF z1 >= MIN(UINT16_MAX, t.max_array_len) THEN 2 ELSE 0 ]
            ELSE [ tracker |-> [ t EXCEPT !.x = 0, !.y = y1, !.ynum = ynum1 ],
                   error |-> 0 ]
    ELSE [ tracker |-> [ t EXCEPT !.x = x1 ], error |-> 0 ]

\* sprite_tracker_set_layout with the quotients rounded up
sprite_tracker_set_layout_ceil(t, cw, ch) ==
    [ t EXCEPT !.xnum = MIN(MAX(1, (t.max_texture_size + cw - 1) \div cw), UINT16_MAX),
               !.max_y = MIN(MAX(1, (t.max_texture_size + ch - 1) \div ch), UINT16_MAX),
               !.ynum = 1, !.x = 0, !.y = 0, !.z = 0 ]

\* sprite_tracker_set_layout
sprite_tracker_set_layout(t, cw, ch) ==
    [ t EXCEPT !.xnum = MIN(MAX(1, t.max_texture_size \div cw), UINT16_MAX),
               !.max_y = MIN(MAX(1, t.max_texture_size \div ch), UINT16_MAX),
               !.ynum = 1, !.x = 0, !.y = 0, !.z = 0 ]

\* sprite_tracker_current_layout
sprite_tracker_current_layout(t) == << t.xnum, t.ynum, t.z >>

(***************************************************************************)
(* Sprite cache                                                            *)
(***************************************************************************)
\* a zeroed SpritePosition (static storage, calloc, CLEAR)
ZeroSprite ==
    [ filled |-> FALSE, rendered |-> FALSE, is_second |-> FALSE,
      x |-> 0, y |-> 0, z |-> 0, glyph |-> 0, extra_glyphs |-> 0 ]

\* glyph ids the model's inputs can ask for: the test glyphs and what
\* box_glyph_id gives for the model's cells (0 for U+2500, 128 for U+E0B0, 130
\* for a cell that is no box character)
ModelGlyphs == { k[1] : k \in TestKeys } \cup { 0, 128, 130 }
\* the heads of sprite_map[1024] those glyphs index (glyph & 0x3ff); the
\* other heads are never read or written
Buckets == { g % SPRITE_MAP_SIZE : g \in ModelGlyphs }

\* Font.sprite_map of a zeroed Font: every head zero, no chain node.
\* A bucket is the sequence <<head, node, node, ...>> linked by next.
ZeroSpriteMap == [ b \in Buckets |-> << ZeroSprite >> ]

SpriteMatches(s, glyph, extra_glyphs, is_second) ==
    s.glyph = glyph /\ s.extra_glyphs = extra_glyphs /\ s.is_second = is_second

\* where the walk of sprite_position_for stops in a bucket: the first entry
\* that is unfilled or is a filled match; 0 when the chain ends first
WalkStop(chain, glyph, extra_glyphs, is_second) ==
    LET stops == { i \in 1..Len(chain) :
                     \/ ~chain[i].filled
                     \/ SpriteMatches(chain[i], glyph, extra_glyphs, is_second) }
    IN IF stops = {} THEN 0
       ELSE CHOOSE i \in stops : \A j \in stops : i <= j

\* sprite_position_for that never finds a key: every call claims a slot
sprite_position_for_no_hit(smap, t, glyph, extra_glyphs, is_second, calloc_ok) ==
    LET idx == glyph % SPRITE_MAP_SIZE
        chain == smap[idx]
        place == Len(chain) + 1
        inc == do_increment(t)
        claimed == [ filled |-> TRUE, rendered |-> FALSE, is_second |-> is_second,
                     x |-> t.x, y |-> t.y, z |-> t.z,
                     glyph |-> glyph, extra_glyphs |-> extra_glyphs ]
    IN [ smap |-> [ smap EXCEPT ![idx] = Append(chain, claimed) ],
         tracker |-> inc.tracker, sp |-> << idx, place >>,
         error |-> inc.error, miss |-> TRUE ]

\* sprite_position_for on one font's sprite_map, with the tracker passed
\* through. calloc_ok: whether calloc of a chain node succeeds. The result:
\* the new map and tracker, sp (<<bucket, place>> or NULL), *error, and
\* whether a slot was claimed.
sprite_position_for(smap, t, glyph, extra_glyphs, is_second, calloc_ok) ==
    LET idx == glyph % SPRITE_MAP_SIZE
        chain == smap[idx]
        stop == WalkStop(chain, glyph, extra_glyphs, is_second)
    IN IF stop # 0 /\ chain[stop].filled
       THEN [ smap |-> smap, tracker |-> t, sp |-> << idx, stop >>,
              error |-> 0, miss |-> FALSE ]
       ELSE IF stop = 0 /\ ~calloc_ok
       THEN [ smap |-> smap, tracker |-> t, sp |-> NULL, error |-> 1, miss |-> FALSE ]
       ELSE LET place == IF stop = 0 THEN Len(chain) + 1 ELSE stop
                chain1 == IF stop = 0 THEN Append(chain, ZeroSprite) ELSE chain
                inc == do_increment(t)
                claimed == [ filled |-> TRUE, rendered |-> FALSE, is_second |-> is_second,
                             x |-> t.x, y |-> t.y, z |-> t.z,
                             glyph |-> glyph, extra_glyphs |-> extra_glyphs ]
            IN [ smap |-> [ smap EXCEPT ![idx] = [ chain1 EXCEPT ![place] = claimed ] ],
                 tracker |-> inc.tracker, sp |-> << idx, place >>,
                 error |-> inc.error, miss |-> TRUE ]

\* clear_sprite_map that frees the chain nodes
clear_sprite_map_free_nodes(smap) ==
    [ b \in DOMAIN smap |-> << ZeroSprite >> ]

\* clear_sprite_map: CLEAR on every head and every chain node, nodes kept
clear_sprite_map(smap) ==
    [ b \in DOMAIN smap |-> [ i \in 1..Len(smap[b]) |-> ZeroSprite ] ]

\* sprite_map_free: the chain nodes are freed. The heads keep their dangling
\* next pointers; every caller discards or never again walks the font.
sprite_map_free(smap) ==
    [ b \in DOMAIN smap |-> << smap[b][1] >> ]

\* sprite_map_set_error: the exception raised for an error code
sprite_map_set_error(error) ==
    CASE error = 1 -> "MemoryError"
      [] error = 2 -> "Out of texture space for sprites"
      [] OTHER -> "Unknown error occurred while allocating sprites"

(***************************************************************************)
(* Fonts, faces and cells                                                  *)
(***************************************************************************)
\* Face objects the embedding application can hand to set_font or return
\* from the fallback provider
Faces == { "face_medium", "face_bold", "face_italic", "face_bi", "face_symbol",
           "face_fallback" }

\* codepoints of the model's cells: 'A', a box-drawing character, one no
\* configured face covers, a double-width ideograph, a symbol-map character,
\* the last of the first box range (U+2570), the diagonal after it (U+2571)
\* and a powerline arrow (U+E0B0)
Ch == [ A |-> 65, BOX |-> 9472, SMILEY |-> 9786, WIDE |-> 20013, SYMBOL |-> 57504,
        ARC |-> 9584, DIAGONAL |-> 9585, ARROW |-> 57520 ]

\* face_has_codepoint: the codepoints each face has a glyph for
face_has_codepoint(face, cp) ==
    CASE face = "face_medium" -> cp \in { Ch.A, Ch.WIDE }
      [] face = "face_bold" -> cp \in { Ch.A }
      [] face = "face_italic" -> cp \in { Ch.A }
      [] face = "face_bi" -> cp \in { Ch.A }
      [] face = "face_symbol" -> cp \in { Ch.SYMBOL }
      [] face = "face_fallback" -> cp \in { Ch.SMILEY, Ch.DIAGONAL, Ch.A }
      [] OTHER -> FALSE

\* a zeroed Font: static Font medium_font = {0}, ...
ZeroFont ==
    [ face |-> NULL, hb_font |-> NULL, bold |-> FALSE, italic |-> FALSE,
      sprite_map |-> ZeroSpriteMap ]

\* alloc_font: face is stored before the shaper handle is asked for
alloc_font(f, face, bold, italic, hb_ok) ==
    IF hb_ok
    THEN [ f EXCEPT !.face = face, !.hb_font = "hb", !.bold = bold, !.italic = italic ]
    ELSE [ f EXCEPT !.face = face, !.hb_font = NULL ]

\* free_font
free_font(f) ==
    [ f EXCEPT !.hb_font = NULL, !.face = NULL,
               !.sprite_map = sprite_map_free(f.sprite_map),
               !.bold = FALSE, !.italic = FALSE ]

\* clear_font
clear_font(f) ==
    [ f EXCEPT !.hb_font = NULL, !.face = NULL,
               !.sprite_map = clear_sprite_map(f.sprite_map),
               !.bold = FALSE, !.italic = FALSE ]

\* Font pointers: the address of one of the static fonts or of an array slot
FontPtr(kind, i) == << kind, i >>
NullFont == FontPtr("NULL", 0)
MediumFont == FontPtr("medium_font", 0)
BoldFont == FontPtr("bold_font", 0)
ItalicFont == FontPtr("italic_font", 0)
BiFont == FontPtr("bi_font", 0)
BoxFont == FontPtr("box_font", 0)
MissingFont == FontPtr("missing_font", 0)
BlankFont == FontPtr("blank_font", 0)

\* the cells a line is made of: ch, cc, and the width, bold and italic bits
\* of attrs
\* the coordinates a cell holds from an earlier rendering of its line
Stale == << 9, 9, 9 >>
MkCell(ch, width, bold, italic) ==
    [ ch |-> ch, cc |-> 0, width |-> width, bold |-> bold, italic |-> italic,
      sprite |-> Stale ]
\* a blank cell, a box drawing cell, a cell of text no configured face covers
\* and a wide cell of text the medium face covers
CellKinds ==
    { MkCell(0, 1, FALSE, FALSE), MkCell(Ch.BOX, 1, FALSE, FALSE),
      MkCell(Ch.SMILEY, 1, FALSE, FALSE), MkCell(Ch.WIDE, 2, FALSE, FALSE) }

\* BI_VAL(attrs): the bold and italic bits of attrs as one number
BI_VAL(cell) == (IF cell.bold THEN 1 ELSE 0) + (IF cell.italic THEN 2 ELSE 0)
CC_MASK == 65535

\* the whole box drawing block and the powerline arrows
IsBoxChar_block(ch) ==
    \/ 9472 <= ch /\ ch <= 9599
    \/ ch = 57520
    \/ ch = 57522
\* the rows of the case ranges of font_for_cell
IsBoxChar(ch) ==
    \/ 9472 <= ch /\ ch <= 9584
    \/ 9588 <= ch /\ ch <= 9599
    \/ ch = 57520
    \/ ch = 57522

\* box_glyph_id
box_glyph_id(ch) ==
    IF 9472 <= ch /\ ch <= 9599 THEN ch - 9472
    ELSE IF ch = 57520 THEN 128
    ELSE IF ch = 57522 THEN 129
    ELSE 130

(***************************************************************************)
(* State                                                                   *)
(***************************************************************************)
VARIABLES
    sprite_tracker,             \* static GPUSpriteTracker sprite_tracker
    medium_font, bold_font, italic_font, bi_font, box_font,
    fallback_fonts,             \* the slots of fallback_fonts[] that hold a face
    symbol_maps, symbol_map_fonts,
    get_fallback_font, box_drawing_function,
    cell_width, cell_height, baseline, underline_position, underline_thickness,
    canvas,                     \* the canvas: NULL, or allocated with a size
    send_sprite_to_gpu, current_send_sprite_to_gpu, python_send_to_gpu_impl,
    face_size,                  \* the size each Face object is set to
    line,                       \* the Line the caller of render_line gets back, and the cells after it in memory
    oob,                        \* cells outside that line the call wrote to
    sel,                        \* the font_for_cell calls of the last call: cell index, font, provider asked
    runs,                       \* the render_run calls of the last render_line: first cell, count, font
    allocs,                     \* positions claimed by cache misses since the last set_layout
    sent,                       \* sprites render_box_cell handed to the GPU sink
    pixels,                     \* the buffers the last freetype.c call read and wrote
    sent_pre,                   \* how many sprites the last send_prerendered_sprites handed to the GPU sink
    stderr,                     \* errors printed (PyErr_Print) by the last call
    ret,                        \* what the last call returned
    crashed                     \* the process died or hung inside a call

vars ==
    << sprite_tracker, medium_font, bold_font, italic_font, bi_font, box_font,
       fallback_fonts, symbol_maps, symbol_map_fonts, get_fallback_font,
       box_drawing_function, cell_width, cell_height, baseline, underline_position,
       underline_thickness, canvas, send_sprite_to_gpu, current_send_sprite_to_gpu,
       python_send_to_gpu_impl, face_size, line, oob, sel, runs, allocs, sent, sent_pre,
       pixels,
       stderr,
       ret, crashed >>

\* no freetype.c call has been made
NoPixels == [ op |-> "none" ]

\* miss: whether the call claimed a new sprite cache slot; layout: the
\* (cell_width, cell_height) a sprite_map_set_layout call was given
Ret(err, val) ==
    [ err |-> err, val |-> val, miss |-> FALSE, key |-> NULL, layout |-> NULL ]
NoVal == << >>

(***************************************************************************)
(* Font selection                                                          *)
(***************************************************************************)
\* the Font a pointer refers to, while render_line runs over the state R
FontAt(R, ptr) ==
    CASE ptr = MediumFont -> medium_font
      [] ptr = BoldFont -> bold_font
      [] ptr = ItalicFont -> italic_font
      [] ptr = BiFont -> bi_font
      [] ptr[1] = "fallback_fonts" /\ ptr[2] < Len(R.fallback_fonts) -> R.fallback_fonts[ptr[2] + 1]
      [] ptr[1] = "symbol_map_fonts" /\ ptr[2] < Len(symbol_map_fonts) -> symbol_map_fonts[ptr[2] + 1]
      [] OTHER -> ZeroFont

\* has_cell_text
has_cell_text(f, cell) ==
    /\ face_has_codepoint(f.face, cell.ch)
    /\ cell.cc # 0 =>
         /\ face_has_codepoint(f.face, cell.cc % (CC_MASK + 1))
         /\ (cell.cc \div 65536) # 0 => face_has_codepoint(f.face, cell.cc \div 65536)

\* in_symbol_maps: the first map in declared order that holds ch
in_symbol_maps(ch) ==
    LET hits == { i \in 1..Len(symbol_maps) :
                    symbol_maps[i].left <= ch /\ ch <= symbol_maps[i].right }
    IN IF hits = {} THEN NullFont
       ELSE LET i == CHOOSE i \in hits : \A j \in hits : i <= j
            IN FontPtr("symbol_map_fonts", symbol_maps[i].font_idx)

\* fallback_font that never looks through fallback_fonts
fallback_font_no_reuse(R, cell, env) ==
    LET i == Len(R.fallback_fonts)
    IN IF get_fallback_font = NULL \/ i = FALLBACK_FONTS_SIZE - 1
       THEN [ font |-> MissingFont, R |-> R, asked |-> FALSE ]
       ELSE IF get_fallback_font # "provider" \/ env.reply = "raise"
       THEN [ font |-> MissingFont,
              R |-> [ R EXCEPT !.stderr = @ \cup { "get_fallback_font raised" } ],
              asked |-> TRUE ]
       ELSE IF env.reply = "None"
       THEN [ font |-> MissingFont, R |-> R, asked |-> TRUE ]
       ELSE IF ~env.hb_ok
       THEN [ font |-> MissingFont,
              R |-> [ R EXCEPT !.crashed = TRUE, !.stderr = @ \cup { "fatal: Out of memory" } ],
              asked |-> TRUE ]
       ELSE [ font |-> FontPtr("fallback_fonts", i),
              R |-> [ R EXCEPT !.fallback_fonts =
                        Append(@, alloc_font(ZeroFont, env.reply, cell.bold, cell.italic, TRUE)) ],
              asked |-> TRUE ]

\* fallback_font. env.reply is what the provider answers (a Face, "None", or
\* "raise"), env.hb_ok whether harfbuzz_font_for_face succeeds. asked: whether
\* the provider was called.
fallback_font(R, cell, env) ==
    LET fits == { i \in 1..Len(R.fallback_fonts) :
                    /\ R.fallback_fonts[i].bold = cell.bold
                    /\ R.fallback_fonts[i].italic = cell.italic
                    /\ has_cell_text(R.fallback_fonts[i], cell) }
        i == Len(R.fallback_fonts)
    IN IF fits # {}
       THEN [ font |-> FontPtr("fallback_fonts", (CHOOSE k \in fits : \A j \in fits : k <= j) - 1),
              R |-> R, asked |-> FALSE ]
       ELSE IF get_fallback_font = NULL \/ i = FALLBACK_FONTS_SIZE - 1
       THEN [ font |-> MissingFont, R |-> R, asked |-> FALSE ]
       ELSE IF get_fallback_font # "provider" \/ env.reply = "raise"
       THEN [ font |-> MissingFont,
              R |-> [ R EXCEPT !.stderr = @ \cup { "get_fallback_font raised" } ],
              asked |-> TRUE ]
       ELSE IF env.reply = "None"
       THEN [ font |-> MissingFont, R |-> R, asked |-> TRUE ]
       ELSE IF ~env.hb_ok
       THEN [ font |-> MissingFont,
              R |-> [ R EXCEPT !.crashed = TRUE, !.stderr = @ \cup { "fatal: Out of memory" } ],
              asked |-> TRUE ]
       ELSE [ font |-> FontPtr("fallback_fonts", i),
              R |-> [ R EXCEPT !.fallback_fonts =
                        Append(@, alloc_font(ZeroFont, env.reply, cell.bold, cell.italic, TRUE)) ],
              asked |-> TRUE ]

\* the font the switch on BI_VAL leaves in ans; no case matches bold+italic
\* (the label is 4), and ans then holds whatever the stack held: env.ub_font
StyledFont(cell, env) ==
    CASE BI_VAL(cell) = 0 -> MediumFont
      [] BI_VAL(cell) = 1 -> IF bold_font.face # NULL THEN BoldFont ELSE MediumFont
      [] BI_VAL(cell) = 2 -> IF italic_font.face # NULL THEN ItalicFont ELSE MediumFont
      [] BI_VAL(cell) = 4 -> IF bi_font.face # NULL THEN BiFont ELSE MediumFont
      [] OTHER -> env.ub_font

\* font_for_cell: the font chosen and the state it leaves
font_for_cell(R, cell, env) ==
    IF cell.ch = 0 THEN [ font |-> BlankFont, R |-> R, asked |-> FALSE ]
    ELSE IF IsBoxChar(cell.ch) THEN [ font |-> BoxFont, R |-> R, asked |-> FALSE ]
    ELSE IF in_symbol_maps(cell.ch) # NullFont
    THEN [ font |-> in_symbol_maps(cell.ch), R |-> R, asked |-> FALSE ]
    ELSE LET ans == StyledFont(cell, env) IN
         IF ans = NullFont
         THEN [ font |-> ans, R |-> [ R EXCEPT !.crashed = TRUE ], asked |-> FALSE ]
         ELSE IF has_cell_text(FontAt(R, ans), cell)
         THEN [ font |-> ans, R |-> R, asked |-> FALSE ]
         ELSE fallback_font(R, cell, env)

(***************************************************************************)
(* Line renderer                                                           *)
(***************************************************************************)
\* set_sprite on the cell at memory place k (1 is line->cells[0]); places
\* past xnum are the cells that follow the line in memory
set_sprite(R, k, x, y, z) ==
    [ R EXCEPT !.cells[k].sprite = << x, y, z >>,
               !.oob = IF k > R.xnum THEN @ \cup { k } ELSE @ ]

\* a call through current_send_sprite_to_gpu: the sprite reaches a sink, is
\* dropped by python_send_to_gpu, or the pointer is NULL. A NULL pointer is
\* called like any other: env.null_call is what the build makes of that.
SinkOutcome(env) ==
    CASE current_send_sprite_to_gpu = NULL ->
           IF env.null_call = "crash" THEN "crash" ELSE "drop"
      [] current_send_sprite_to_gpu = "python_send_to_gpu"
         /\ python_send_to_gpu_impl = NULL -> "drop"
      [] OTHER -> "sent"

send_to_gpu(R, rec, env) ==
    CASE SinkOutcome(env) = "crash" -> [ R EXCEPT !.crashed = TRUE ]
      [] SinkOutcome(env) = "drop" -> R
      [] OTHER -> [ R EXCEPT !.sent = Append(@, rec) ]

\* a local variable of the C code: the value of F at e, with e computed once
Local(e, F(_)) == CHOOSE v \in { F(x) : x \in { e } } : TRUE

\* render_box_cell with the rendered flag never set
render_box_cell_resend(R, k, env) ==
    LET glyph == box_glyph_id(R.cells[k].ch) IN
    Local(sprite_position_for(R.box_map, R.tracker, glyph, 0, FALSE, env.calloc_ok),
          LAMBDA r :
            IF r.sp = NULL
            THEN set_sprite([ R EXCEPT !.stderr = @ \cup { sprite_map_set_error(r.error) } ],
                            k, 0, 0, 0)
            ELSE LET sp == r.smap[r.sp[1]][r.sp[2]]
                     R1 == [ set_sprite(R, k, sp.x, sp.y, sp.z) EXCEPT
                               !.box_map = r.smap, !.tracker = r.tracker,
                               !.allocs = IF r.miss THEN Append(@, << sp.x, sp.y, sp.z >>)
                                          ELSE @ ]
                 IN IF box_drawing_function # "painter" \/ ~env.paint_ok
                    THEN [ R1 EXCEPT !.stderr = @ \cup { "box_drawing_function raised" } ]
                    ELSE send_to_gpu(R1, [ glyph |-> glyph, x |-> sp.x, y |-> sp.y,
                                           z |-> sp.z ], env))

\* render_box_cell
render_box_cell(R, k, env) ==
    LET glyph == box_glyph_id(R.cells[k].ch) IN
    Local(sprite_position_for(R.box_map, R.tracker, glyph, 0, FALSE, env.calloc_ok),
          LAMBDA r :
            IF r.sp = NULL
            THEN set_sprite([ R EXCEPT !.stderr = @ \cup { sprite_map_set_error(r.error) } ],
                            k, 0, 0, 0)
            ELSE LET sp == r.smap[r.sp[1]][r.sp[2]]
                     R1 == [ set_sprite(R, k, sp.x, sp.y, sp.z) EXCEPT
                               !.box_map = r.smap, !.tracker = r.tracker,
                               !.allocs = IF r.miss THEN Append(@, << sp.x, sp.y, sp.z >>)
                                          ELSE @ ]
                 IN IF sp.rendered THEN R1
                    ELSE LET R2 == [ R1 EXCEPT !.box_map[r.sp[1]][r.sp[2]].rendered = TRUE ]
                         IN IF box_drawing_function # "painter" \/ ~env.paint_ok
                            THEN [ R2 EXCEPT !.stderr = @ \cup { "box_drawing_function raised" } ]
                            ELSE send_to_gpu(R2, [ glyph |-> glyph, x |-> sp.x, y |-> sp.y,
                                                   z |-> sp.z ], env))

\* render_run on num_cells cells from memory place k on
RECURSIVE render_run(_, _, _, _, _)
render_run(R, k, num_cells, font, env) ==
    IF num_cells = 0 \/ R.crashed \/ FontAt(R, font).face # NULL THEN R
    ELSE Local(IF font = BlankFont THEN set_sprite(R, k, 0, 0, 0)
               ELSE IF font = MissingFont THEN set_sprite(R, k, MISSING_GLYPH, 0, 0)
               ELSE render_box_cell(R, k, env),
               LAMBDA R1 : render_run(R1, k + 1, num_cells - 1, font, env))

\* a width that is never 2
WIDTH_narrow(cell) == 1
\* cell->attrs & WIDTH_MASK
WIDTH(cell) == cell.width

\* the loop of render_line from cell i on (i counts from 0), then the last
\* run. sel and runs note each font_for_cell call and each render_run call:
\* the index in line->cells of the cell handed over, the count, the font.
RECURSIVE render_line_from(_, _, _)
render_line_from(R, i, env) ==
    IF R.crashed THEN R
    ELSE IF i >= R.xnum
    THEN IF R.run_font # NullFont /\ i > R.first_cell_in_run
         THEN render_run([ R EXCEPT !.runs = Append(@, [ first |-> R.first_cell_in_run,
                                                         count |-> i - R.first_cell_in_run,
                                                         font |-> R.run_font ]) ],
                         R.first_cell_in_run + 1, i - R.first_cell_in_run, R.run_font, env)
         ELSE R
    ELSE IF R.prev_width = 2 THEN render_line_from(R, i + 1, env)
    ELSE Local(font_for_cell(R, R.cells[i + 1], env),
               LAMBDA f :
                 Local([ f.R EXCEPT !.prev_width = WIDTH(R.cells[i + 1]),
                                    !.sel = Append(@, [ i |-> i, font |-> f.font,
                                                        asked |-> f.asked ]) ],
                       LAMBDA R1 :
                         IF f.font = R.run_font
                         THEN render_line_from(R1, i + 1, env)
                         ELSE Local(IF R.run_font # NullFont /\ i > R.first_cell_in_run
                                    THEN render_run(
                                           [ R1 EXCEPT !.runs =
                                               Append(@, [ first |-> i,
                                                           count |-> i - R.first_cell_in_run,
                                                           font |-> R.run_font ]) ],
                                           i + 1, i - R.first_cell_in_run, R.run_font, env)
                                    ELSE R1,
                                    LAMBDA R2 :
                                      Local([ R2 EXCEPT !.run_font = f.font,
                                                        !.first_cell_in_run = i ],
                                            LAMBDA R3 : render_line_from(R3, i + 1, env)))))

(***************************************************************************)
(* Cell metrics and configuration                                          *)
(***************************************************************************)
\* uint8_t *canvas: NULL, or a buffer of size bytes
NullCanvas == [ allocated |-> FALSE, size |-> 0 ]
Canvas(size) == [ allocated |-> TRUE, size |-> size ]

\* what cell_metrics reports for the medium face: width, height, baseline,
\* underline position and thickness
Metrics(w, h, b, up, ut) ==
    [ cell_width |-> w, cell_height |-> h, baseline |-> b,
      underline_position |-> up, underline_thickness |-> ut ]

\* one run of update_cell_metrics: the face whose set_size_for_face fails
\* (NULL: none), the metrics of the medium face, the adjust_line_height
\* options (px, and frac as num/den; 0 leaves the height alone) and whether
\* malloc of the canvas succeeds
UcmCase(bad_face, m, px, num, den, malloc_ok) ==
    [ bad_face |-> bad_face, m |-> m, px |-> px, frac_num |-> num, frac_den |-> den,
      malloc_ok |-> malloc_ok ]
UcmOk == UcmCase(NULL, Metrics(16, 16, 12, 20, 1), 0, 0, 1, TRUE)
UcmCases ==
    { UcmOk,
      UcmCase(NULL, Metrics(0, 16, 12, 20, 1), 0, 0, 1, TRUE),
      UcmCase(NULL, Metrics(16, 2, 1, 1, 1), 0, 0, 1, TRUE),
      UcmCase(NULL, Metrics(16, 16, 12, 20, 1), 2, 126, 2, TRUE),
      UcmCase("face_medium", Metrics(16, 16, 12, 20, 1), 0, 0, 1, TRUE),
      UcmCase(NULL, Metrics(16, 16, 12, 20, 1), 0, 0, 1, FALSE) }

\* the fonts update_cell_metrics walks, in its order: medium, bold, italic,
\* bi, the fallback fonts, the symbol map fonts
SizedFonts(C) ==
    << C.medium_font, C.bold_font, C.italic_font, C.bi_font >>
        \o C.fallback_fonts \o C.symbol_map_fonts

\* the place in that order of the first font whose set_size_for_face fails;
\* one past the end when none does
FirstFailure(C, bad_face) ==
    LET fs == SizedFonts(C)
        bad == { i \in 1..Len(fs) : fs[i].face # NULL /\ fs[i].face = bad_face }
    IN IF bad = {} THEN Len(fs) + 1
       ELSE CHOOSE i \in bad : \A j \in bad : i <= j

\* CALL(f) of update_cell_metrics on the font at place i of the order
CallFont(f, i, stop) ==
    IF f.face # NULL /\ i < stop
    THEN [ f EXCEPT !.sprite_map = clear_sprite_map(@) ]
    ELSE f

\* update_cell_metrics over the configuration C (the globals as the caller
\* left them): the globals it leaves and what it returns
update_cell_metrics(C, pt_sz, u) ==
    LET fs == SizedFonts(C)
        stop == FirstFailure(C, u.bad_face)
        nfb == Len(C.fallback_fonts)
        sized == { fs[i].face : i \in { j \in 1..Len(fs) : j < stop /\ fs[j].face # NULL } }
        C1 == [ C EXCEPT
                  !.medium_font = CallFont(@, 1, stop),
                  !.bold_font = CallFont(@, 2, stop),
                  !.italic_font = CallFont(@, 3, stop),
                  !.bi_font = CallFont(@, 4, stop),
                  !.fallback_fonts = [ i \in 1..nfb |-> CallFont(@[i], 4 + i, stop) ],
                  !.symbol_map_fonts =
                      [ i \in 1..Len(@) |-> CallFont(@[i], 4 + nfb + i, stop) ],
                  !.face_size = [ f \in Faces |-> IF f \in sized THEN pt_sz ELSE @[f] ] ]
        h1 == IF u.px # 0 THEN u.m.cell_height + u.px ELSE u.m.cell_height
        h2 == IF u.frac_num # 0 THEN (h1 * u.frac_num) \div u.frac_den ELSE h1
        C2w == [ C1 EXCEPT
                  !.cell_width = u.m.cell_width, !.cell_height = u.m.cell_height,
                  !.baseline = u.m.baseline,
                  !.underline_position = u.m.underline_position,
                  !.underline_thickness = u.m.underline_thickness ]
        C2 == [ C1 EXCEPT
                  !.cell_width = u.m.cell_width, !.cell_height = h2,
                  !.baseline = u.m.baseline,
                  !.underline_position = u.m.underline_position,
                  !.underline_thickness = u.m.underline_thickness ]
        up == MIN(h2 - 1, u.m.underline_position)
        C3 == [ C2 EXCEPT
                  !.underline_position = up,
                  !.sprite_tracker = sprite_tracker_set_layout(@, u.m.cell_width, h2),
                  !.allocs = << >>,
                  !.canvas = IF u.malloc_ok THEN Canvas(u.m.cell_width * h2) ELSE NullCanvas ]
    IN IF stop <= Len(fs)
       THEN [ C1 EXCEPT !.ret = Ret("FreeTypeError: Failed to set char size", NoVal) ]
       ELSE IF u.m.cell_width = 0
       THEN [ C2w EXCEPT !.ret = Ret("ValueError: Failed to calculate cell width", NoVal) ]
       ELSE IF h2 < MIN_CELL_HEIGHT
       THEN [ C2 EXCEPT !.ret = Ret("ValueError: line height too small", NoVal) ]
       ELSE IF h2 > MAX_CELL_HEIGHT
       THEN [ C2 EXCEPT !.ret = Ret("ValueError: line height too large", NoVal) ]
       ELSE IF ~u.malloc_ok
       THEN [ C3 EXCEPT !.ret = Ret("MemoryError", NoVal) ]
       ELSE [ C3 EXCEPT !.ret = Ret("",
                                    << u.m.cell_width, h2, u.m.baseline, up, u.m.underline_thickness >>) ]

\* the globals a configuration call reads and writes, as one record
Config ==
    [ medium_font |-> medium_font, bold_font |-> bold_font, italic_font |-> italic_font,
      bi_font |-> bi_font, fallback_fonts |-> fallback_fonts,
      symbol_maps |-> symbol_maps, symbol_map_fonts |-> symbol_map_fonts,
      get_fallback_font |-> get_fallback_font,
      box_drawing_function |-> box_drawing_function,
      face_size |-> face_size, cell_width |-> cell_width, cell_height |-> cell_height,
      baseline |-> baseline, underline_position |-> underline_position,
      underline_thickness |-> underline_thickness, sprite_tracker |-> sprite_tracker,
      allocs |-> allocs, canvas |-> canvas, ret |-> ret ]

\* the globals take the values of the record C
Install(C) ==
    /\ medium_font' = C.medium_font
    /\ bold_font' = C.bold_font
    /\ italic_font' = C.italic_font
    /\ bi_font' = C.bi_font
    /\ fallback_fonts' = C.fallback_fonts
    /\ symbol_maps' = C.symbol_maps
    /\ symbol_map_fonts' = C.symbol_map_fonts
    /\ get_fallback_font' = C.get_fallback_font
    /\ box_drawing_function' = C.box_drawing_function
    /\ face_size' = C.face_size
    /\ cell_width' = C.cell_width
    /\ cell_height' = C.cell_height
    /\ baseline' = C.baseline
    /\ underline_position' = C.underline_position
    /\ underline_thickness' = C.underline_thickness
    /\ sprite_tracker' = C.sprite_tracker
    /\ allocs' = C.allocs
    /\ canvas' = C.canvas
    /\ ret' = C.ret

(***************************************************************************)
(* Inputs of the entry points                                              *)
(***************************************************************************)
\* no Line
NoLine == [ xnum |-> 0, cells |-> << >> ]

\* the lines render_line is handed: 1..MaxLineLen cells
Lines ==
    { ln \in UNION { [ 1..n -> CellKinds ] : n \in 1..MaxLineLen } :
        medium_font.face = NULL => \A i \in 1..Len(ln) : ln[i].ch = 0 \/ IsBoxChar(ln[i].ch) }

\* lines of one box glyph each, and three-cell lines: a wide character, its
\* right half and a third cell; two blank cells and a box glyph
LongLines ==
    { ln \in { << MkCell(Ch.BOX, 1, FALSE, FALSE) >>,
               << MkCell(Ch.ARROW, 1, FALSE, FALSE) >>,
               << MkCell(Ch.WIDE, 2, FALSE, FALSE), MkCell(0, 0, FALSE, FALSE),
                  MkCell(Ch.BOX, 1, FALSE, FALSE) >>,
               << MkCell(0, 1, FALSE, FALSE), MkCell(0, 1, FALSE, FALSE),
                  MkCell(Ch.BOX, 1, FALSE, FALSE) >> } :
        medium_font.face = NULL => \A i \in 1..Len(ln) : ln[i].ch = 0 \/ IsBoxChar(ln[i].ch) }

\* render_run can be handed a run that starts at the last cell and is as
\* long as the line before it: the cells that follow the line in memory
Overrun(n) == IF n >= 2 THEN n - 2 ELSE 0
\* what those cells hold
AdjacentKinds == { MkCell(0, 1, FALSE, FALSE), MkCell(Ch.BOX, 1, FALSE, FALSE) }

\* what the environment does during one call: whether calloc succeeds,
\* whether the box painter returns, what the fallback provider answers,
\* whether a shaper handle can be made, what calling a NULL function pointer
\* does, what an uninitialised Font pointer holds. One deviation at a time.
Env(calloc_ok, paint_ok, reply, hb_ok, null_call, ub_font) ==
    [ calloc_ok |-> calloc_ok, paint_ok |-> paint_ok, reply |-> reply,
      hb_ok |-> hb_ok, null_call |-> null_call, ub_font |-> ub_font ]
BaseEnv == Env(TRUE, TRUE, "face_fallback", TRUE, "crash", MediumFont)
\* the deviations that bear on a box cell, and those that bear on a cell no
\* configured face covers
BoxEnvs ==
    { Env(FALSE, TRUE, "face_fallback", TRUE, "crash", MediumFont),
      Env(TRUE, FALSE, "face_fallback", TRUE, "crash", MediumFont),
      Env(TRUE, TRUE, "face_fallback", TRUE, "return", MediumFont) }
FallbackEnvs ==
    { Env(TRUE, TRUE, "None", TRUE, "crash", MediumFont),
      Env(TRUE, TRUE, "raise", TRUE, "crash", MediumFont),
      Env(TRUE, TRUE, "face_fallback", FALSE, "crash", MediumFont) }
\* the environments that can tell on the line ln
Envs(ln) ==
    { BaseEnv }
      \cup (IF \E i \in 1..Len(ln) : IsBoxChar(ln[i].ch)
            THEN { e \in BoxEnvs :
                     e.null_call = "crash" \/ current_send_sprite_to_gpu = NULL }
            ELSE {})
      \cup (IF get_fallback_font # NULL /\ \E i \in 1..Len(ln) : ln[i].ch = Ch.SMILEY
            THEN FallbackEnvs ELSE {})

\* the arguments of set_font
SymbolMap(left, right, font_idx) == [ left |-> left, right |-> right, font_idx |-> font_idx ]
SetFontArgs ==
    { [ get_fallback_font |-> "provider", box_drawing_function |-> "painter",
        sm |-> << >>, smf |-> << >>, pt_sz |-> 10,
        medium |-> "face_medium", bold |-> NULL, italic |-> NULL, bi |-> NULL ],
      [ get_fallback_font |-> "provider", box_drawing_function |-> "painter",
        sm |-> << SymbolMap(Ch.SYMBOL, Ch.SYMBOL, 0) >>,
        smf |-> << [ face |-> "face_symbol", bold |-> FALSE, italic |-> FALSE ] >>,
        pt_sz |-> 10,
        medium |-> "face_medium", bold |-> "face_bold", italic |-> NULL, bi |-> NULL ] }
PtSizes == { 12 }

\* what PyArg_ParseTuple makes of the arguments of set_font: they parse, the
\* tuple is too short (nothing is stored), or a later argument has the wrong
\* type (the two leading objects are stored already)
ParseOutcomes == { "ok", "argcount", "argtype" }

\* what an uninitialised SymbolMap can hold: a range no character is in, or
\* one every character is in
GarbageMaps == { SymbolMap(1, 0, 0), SymbolMap(0, 1114111, 0) }

\* one call of set_font: its arguments, how they parse, the face no shaper
\* handle can be made for (NULL: none), the run of update_cell_metrics, and
\* what uninitialised symbol maps hold
SetFontCall(a, parse, hb_fail, u, garbage) ==
    [ a |-> a, parse |-> parse, hb_fail |-> hb_fail, u |-> u, garbage |-> garbage ]
\* the calls of set_font: at most one thing goes wrong in each
SetFontCalls ==
    LET g == SymbolMap(1, 0, 0)
        plain == CHOOSE a \in SetFontArgs : Len(a.sm) = 0
        full == CHOOSE a \in SetFontArgs : Len(a.sm) > 0
    IN { SetFontCall(plain, "ok", NULL, u, g) : u \in UcmCases }
         \cup { SetFontCall(plain, p, NULL, UcmOk, g) : p \in ParseOutcomes }
         \cup { SetFontCall(full, "ok", f, UcmOk, g) : f \in { NULL, "face_bold" } }
         \cup { SetFontCall(full, "ok", "face_symbol", UcmOk, gm) : gm \in GarbageMaps }

(***************************************************************************)
(* Initial state: the module after init_fonts                              *)
(***************************************************************************)
\* the state of fonts.c after the module is loaded
InitFonts ==
    /\ sprite_tracker = InitTracker
    /\ medium_font = ZeroFont
    /\ bold_font = ZeroFont
    /\ italic_font = ZeroFont
    /\ bi_font = ZeroFont
    /\ box_font = ZeroFont
    /\ fallback_fonts = << >>
    /\ symbol_maps = << >>
    /\ symbol_map_fonts = << >>
    /\ get_fallback_font = NULL
    /\ box_drawing_function = NULL
    /\ cell_width = 0
    /\ cell_height = 0
    /\ baseline = 0
    /\ underline_position = 0
    /\ underline_thickness = 0
    /\ canvas = NullCanvas
    /\ send_sprite_to_gpu = NULL
    /\ current_send_sprite_to_gpu = send_sprite_to_gpu
    /\ python_send_to_gpu_impl = NULL
    /\ face_size = [ f \in Faces |-> 0 ]
    /\ line = NoLine
    /\ oob = {}
    /\ sel = << >>
    /\ runs = << >>
    /\ allocs = << >>
    /\ sent = << >>
    /\ sent_pre = 0
    /\ stderr = {}
    /\ ret = Ret("", NoVal)
    /\ crashed = FALSE

Init == InitFonts /\ pixels = NoPixels

(***************************************************************************)
(* Entry points                                                            *)
(***************************************************************************)
fontVars ==
    << medium_font, bold_font, italic_font, bi_font, symbol_maps, symbol_map_fonts,
       get_fallback_font, box_drawing_function, face_size >>
metricVars ==
    << cell_width, cell_height, baseline, underline_position, underline_thickness, canvas >>
sinkVars == << send_sprite_to_gpu, current_send_sprite_to_gpu, python_send_to_gpu_impl >>
\* the Line belongs to the caller of render_line: a call of anything else
\* hands none back; no fonts.c call touches the buffers of freetype.c
LineGone ==
    line' = NoLine /\ oob' = {} /\ sel' = << >> /\ runs' = << >> /\ pixels' = NoPixels

\* sprite_map_set_limits(w, h) with a = (w, h)
sprite_map_set_limits_call(a) ==
    /\ sprite_tracker' = sprite_tracker_set_limits(sprite_tracker, a[1], a[2])
    /\ ret' = Ret("", NoVal)
    /\ stderr' = {}
    /\ LineGone
    /\ UNCHANGED << fontVars, metricVars, sinkVars, box_font, fallback_fonts,
                    allocs, sent, sent_pre, crashed >>

\* sprite_map_set_limits
sprite_map_set_limits ==
    /\ ~crashed
    /\ \E a \in LimitArgs : sprite_map_set_limits_call(a)

\* sprite_map_set_limits over every texture size up to MaxTexture
sprite_map_set_limits_any ==
    /\ ~crashed
    /\ \E a \in TextureLimits : sprite_map_set_limits_call(a)

\* sprite_map_set_layout(w, h) with a = (w, h)
sprite_map_set_layout_call(a) ==
    /\ sprite_tracker' = sprite_tracker_set_layout(sprite_tracker, a[1], a[2])
    /\ allocs' = << >>
    /\ ret' = [ Ret("", NoVal) EXCEPT !.layout = a ]
    /\ stderr' = {}
    /\ LineGone
    /\ UNCHANGED << fontVars, metricVars, sinkVars, box_font, fallback_fonts,
                    sent, sent_pre, crashed >>

\* sprite_map_set_layout
sprite_map_set_layout ==
    /\ ~crashed
    /\ \E a \in LayoutArgs : sprite_map_set_layout_call(a)

\* sprite_map_set_layout over every cell size up to MaxCellSize
sprite_map_set_layout_any ==
    /\ ~crashed
    /\ \E a \in CellSizes : sprite_map_set_layout_call(a)

\* test_sprite_position_for
test_sprite_position_for_call(key, calloc_ok) ==
    /\   LET glyph == key[1]
             extra_glyphs == key[2]
             r == sprite_position_for(box_font.sprite_map, sprite_tracker,
                                      glyph, extra_glyphs, FALSE, calloc_ok)
             pos == r.smap[r.sp[1]][r.sp[2]]
         IN /\ box_font' = [ box_font EXCEPT !.sprite_map = r.smap ]
            /\ sprite_tracker' = r.tracker
            /\ IF r.sp = NULL
               THEN /\ ret' = [ Ret(sprite_map_set_error(r.error), NoVal)
                                EXCEPT !.key = key ]
                    /\ allocs' = allocs
               ELSE /\ ret' = [ Ret("", << pos.x, pos.y, pos.z >>)
                                EXCEPT !.miss = r.miss, !.key = key ]
                    /\ allocs' = IF r.miss THEN Append(allocs, << pos.x, pos.y, pos.z >>)
                                 ELSE allocs
    /\ stderr' = {}
    /\ LineGone
    /\ UNCHANGED << fontVars, metricVars, sinkVars, fallback_fonts,
                    sent, sent_pre, crashed >>

\* test_sprite_position_for(glyph, extra_glyphs)
test_sprite_position_for ==
    /\ ~crashed
    /\ \E key \in TestKeys, calloc_ok \in BOOLEAN :
         test_sprite_position_for_call(key, calloc_ok)

\* how many entries of the box font's cache are filled
FilledCount ==
    Cardinality({ bp \in (DOMAIN box_font.sprite_map) \X (1..MaxAllocKeys) :
                    /\ bp[2] <= Len(box_font.sprite_map[bp[1]])
                    /\ box_font.sprite_map[bp[1]][bp[2]].filled })

\* test_sprite_position_for(0, e) on the first key not yet cached, or on
\* the first key cached
test_sprite_position_for_next ==
    /\ ~crashed
    /\ \E e \in { 0, FilledCount }, calloc_ok \in BOOLEAN :
         /\ e < MaxAllocKeys
         /\ test_sprite_position_for_call(<< 0, e >>, calloc_ok)

\* sprite_map_set_limits for an atlas two cells wide and two layers deep
sprite_map_set_limits_small ==
    /\ ~crashed
    /\ \E a \in SmallLimitArgs : sprite_map_set_limits_call(a)

\* clear_sprite_map(&box_font): the function on the one cache the entry
\* points fill, taken while x + y + z of the cursor is below MaxClearCursor
clear_sprite_map_box ==
    /\ ~crashed
    /\ sprite_tracker.x + sprite_tracker.y + sprite_tracker.z < MaxClearCursor
    /\ box_font' = [ box_font EXCEPT !.sprite_map = clear_sprite_map(@) ]
    /\ ret' = Ret("", NoVal)
    /\ stderr' = {}
    /\ LineGone
    /\ UNCHANGED << fontVars, metricVars, sinkVars, sprite_tracker, fallback_fonts,
                    allocs, sent, sent_pre, crashed >>

\* the loop of send_prerendered_sprites over the n buffers left: P holds the
\* tracker, the positions sent, the last x, and the error raised
RECURSIVE prerendered_loop(_, _, _)
prerendered_loop(P, n, outcome) ==
    IF n = 0 \/ P.crashed \/ P.err # "" THEN P
    ELSE LET inc == do_increment(P.tracker)
             pos == << P.tracker.x, P.tracker.y, P.tracker.z >>
             P1 == [ P EXCEPT !.tracker = inc.tracker, !.x = pos[1] ]
         IN IF inc.error # 0
            THEN [ P1 EXCEPT !.err = sprite_map_set_error(inc.error) ]
            ELSE prerendered_loop(
                     [ P1 EXCEPT !.crashed = (outcome = "crash"),
                                 !.sent_pre = IF outcome = "sent" THEN @ + 1 ELSE @ ],
                     n - 1, outcome)

\* send_prerendered_sprites
send_prerendered_sprites ==
    /\ ~crashed
    /\ sprite_tracker.x + sprite_tracker.y + sprite_tracker.z < MaxCursor
    /\ \E n \in PrerenderedCounts, null_call \in { "crash", "return" } :
         LET outcome == IF canvas = NullCanvas /\ cell_width * cell_height > 0 THEN "crash"
                        ELSE SinkOutcome([ null_call |-> null_call ])
             inc == do_increment(sprite_tracker)
             P0 == [ tracker |-> IF outcome = "crash" THEN sprite_tracker ELSE inc.tracker,
                     sent_pre |-> IF outcome = "sent" THEN 1 ELSE 0,
                     x |-> 0,
                     err |-> IF outcome # "crash" /\ inc.error # 0
                             THEN sprite_map_set_error(inc.error) ELSE "",
                     crashed |-> (outcome = "crash") ]
             P == prerendered_loop(P0, n, outcome)
         IN /\ sprite_tracker' = P.tracker
            /\ sent_pre' = P.sent_pre
            /\ crashed' = P.crashed
            /\ ret' = Ret(P.err,
                          IF P.err = "" /\ ~P.crashed THEN << P.x >> ELSE NoVal)
    /\ stderr' = {}
    /\ LineGone
    /\ UNCHANGED << fontVars, metricVars, sinkVars, box_font, fallback_fonts,
                    allocs, sent >>

\* set_send_sprite_to_gpu
set_send_sprite_to_gpu ==
    /\ ~crashed
    /\ \E func \in { "None", "func" } :
         /\ python_send_to_gpu_impl' = func
         /\ current_send_sprite_to_gpu' =
              IF func = "None" THEN send_sprite_to_gpu ELSE "python_send_to_gpu"
    /\ ret' = Ret("", NoVal)
    /\ stderr' = {}
    /\ LineGone
    /\ UNCHANGED << fontVars, metricVars, sprite_tracker, box_font,
                    fallback_fonts, send_sprite_to_gpu, allocs, sent, sent_pre, crashed >>

\* render_line; a line with text in it is rendered once a medium face is
\* configured
render_line_call(ln) ==
    /\ ~crashed
    /\ \E env \in Envs(ln) :
       \E adj \in IF Overrun(Len(ln)) = 0 THEN { MkCell(0, 1, FALSE, FALSE) } ELSE AdjacentKinds :
       \E R0 \in { [ cells |-> ln \o [ i \in 1..Overrun(Len(ln)) |-> adj ],
                     xnum |-> Len(ln), oob |-> {}, sel |-> << >>, runs |-> << >>,
                     box_map |-> box_font.sprite_map, tracker |-> sprite_tracker,
                     fallback_fonts |-> fallback_fonts, allocs |-> allocs, sent |-> sent,
                     stderr |-> {}, crashed |-> FALSE,
                     run_font |-> NullFont, first_cell_in_run |-> 0, prev_width |-> 0 ] } :
       \E R \in { render_line_from(R0, 0, env) } :
            /\ line' = [ xnum |-> R.xnum, cells |-> R.cells ]
            /\ oob' = R.oob
            /\ sel' = R.sel
            /\ runs' = R.runs
            /\ pixels' = NoPixels
            /\ box_font' = [ box_font EXCEPT !.sprite_map = R.box_map ]
            /\ sprite_tracker' = R.tracker
            /\ fallback_fonts' = R.fallback_fonts
            /\ allocs' = R.allocs
            /\ sent' = R.sent
            /\ stderr' = R.stderr
            /\ crashed' = R.crashed
    /\ ret' = Ret("", NoVal)
    /\ UNCHANGED << fontVars, metricVars, sinkVars, sent_pre >>

\* render_line on the lines of 1..MaxLineLen cells
render_line == \E ln \in Lines : render_line_call(ln)

\* render_line on lines of box glyphs, and on three-cell lines
render_line_long == \E ln \in LongLines : render_line_call(ln)

\* the alloc_font calls of set_font on the faces handed in, in order; the
\* first face for which no shaper handle can be made (hb_fail) ends them
StyledAlloc(C, a, hb_fail) ==
    LET Cm == [ C EXCEPT !.medium_font =
                  alloc_font(@, a.medium, FALSE, FALSE, a.medium # hb_fail) ]
        Cb == IF a.bold = NULL THEN Cm
              ELSE [ Cm EXCEPT !.bold_font =
                       alloc_font(@, a.bold, FALSE, FALSE, a.bold # hb_fail) ]
        Ci == IF a.italic = NULL THEN Cb
              ELSE [ Cb EXCEPT !.italic_font =
                       alloc_font(@, a.italic, FALSE, FALSE, a.italic # hb_fail) ]
        Cbi == IF a.bi = NULL THEN Ci
               ELSE [ Ci EXCEPT !.bi_font =
                        alloc_font(@, a.bi, FALSE, FALSE, a.bi # hb_fail) ]
    IN IF a.medium = hb_fail THEN [ C |-> Cm, ok |-> FALSE ]
       ELSE IF a.bold # NULL /\ a.bold = hb_fail THEN [ C |-> Cb, ok |-> FALSE ]
       ELSE IF a.italic # NULL /\ a.italic = hb_fail THEN [ C |-> Ci, ok |-> FALSE ]
       ELSE IF a.bi # NULL /\ a.bi = hb_fail THEN [ C |-> Cbi, ok |-> FALSE ]
       ELSE [ C |-> Cbi, ok |-> TRUE ]

\* the symbol map part of set_font, run when the old arrays are gone: the
\* arrays are sized, the fonts allocated in order, then the maps filled in.
\* When a font cannot be allocated the maps stay as malloc left them: garbage.
SymbolAlloc(C, a, hb_fail, garbage) ==
    IF Len(a.sm) = 0
    THEN [ C |-> [ C EXCEPT !.symbol_maps = << >>, !.symbol_map_fonts = << >> ], ok |-> TRUE ]
    ELSE LET bad == { i \in 1..Len(a.smf) : a.smf[i].face = hb_fail }
             stop == IF bad = {} THEN Len(a.smf) + 1
                     ELSE CHOOSE i \in bad : \A j \in bad : i <= j
             fonts == [ i \in 1..Len(a.smf) |->
                          IF i > stop THEN ZeroFont
                          ELSE alloc_font(ZeroFont, a.smf[i].face, a.smf[i].bold,
                                          a.smf[i].italic, i # stop) ]
         IN IF bad # {}
            THEN [ C |-> [ C EXCEPT !.symbol_maps = [ i \in 1..Len(a.sm) |-> garbage ],
                                    !.symbol_map_fonts = fonts ],
                   ok |-> FALSE ]
            ELSE [ C |-> [ C EXCEPT !.symbol_maps = a.sm, !.symbol_map_fonts = fonts ],
                   ok |-> TRUE ]

\* set_font, for one call c of it
set_font_call(c) ==
    LET a == c.a
        parse == c.parse
        hb_fail == c.hb_fail
        u == c.u
        garbage == c.garbage
        C0 == [ Config EXCEPT !.get_fallback_font = NULL, !.box_drawing_function = NULL ]
        Cp == [ C0 EXCEPT !.get_fallback_font = a.get_fallback_font,
                          !.box_drawing_function = a.box_drawing_function ]
        Cc == [ Cp EXCEPT !.medium_font = clear_font(@), !.bold_font = clear_font(@),
                          !.italic_font = clear_font(@), !.bi_font = clear_font(@) ]
        st == StyledAlloc(Cc, a, hb_fail)
        Cf == [ st.C EXCEPT !.fallback_fonts = << >> ]
        sy == SymbolAlloc(Cf, a, hb_fail, garbage)
    IN /\ CASE parse = "argcount" ->
                /\ Install([ C0 EXCEPT !.ret = Ret("TypeError", NoVal) ])
                /\ crashed' = FALSE
           [] parse = "argtype" ->
                /\ Install([ Cp EXCEPT !.ret = Ret("TypeError", NoVal) ])
                /\ crashed' = FALSE
           [] parse = "ok" /\ ~st.ok ->
                /\ Install([ st.C EXCEPT !.ret = Ret("MemoryError", NoVal) ])
                /\ crashed' = FALSE
           [] parse = "ok" /\ st.ok /\ Len(symbol_map_fonts) > 0 ->
                \* the loop that frees the old symbol map fonts tests the
                \* count, never its index: it runs off the array for good
                /\ Install([ Cf EXCEPT !.ret = Ret("", NoVal) ])
                /\ crashed' = TRUE
           [] parse = "ok" /\ st.ok /\ Len(symbol_map_fonts) = 0 /\ ~sy.ok ->
                /\ Install([ sy.C EXCEPT !.ret = Ret("MemoryError", NoVal) ])
                /\ crashed' = FALSE
           [] OTHER ->
                /\ Install(update_cell_metrics(sy.C, a.pt_sz, u))
                /\ crashed' = FALSE
       /\ stderr' = {}
       /\ LineGone
       /\ UNCHANGED << sinkVars, box_font, sent, sent_pre >>

\* set_font
set_font ==
    /\ ~crashed
    /\ \E c \in SetFontCalls : set_font_call(c)

\* set_font_size, called once a medium face is configured
set_font_size ==
    /\ ~crashed
    /\ medium_font.face # NULL
    /\ \E pt_sz \in PtSizes, parse \in { "ok", "argtype" }, u \in UcmCases :
         IF parse = "ok"
         THEN Install(update_cell_metrics(Config, pt_sz, u))
         ELSE Install([ Config EXCEPT !.ret = Ret("TypeError", NoVal) ])
    /\ stderr' = {}
    /\ LineGone
    /\ UNCHANGED << sinkVars, box_font, sent, sent_pre, crashed >>

\* set_font when its arguments parse and every allocation and every FreeType
\* call in it succeeds
SetFontOkCalls ==
    { c \in SetFontCalls : c.parse = "ok" /\ c.hb_fail = NULL /\ c.u = UcmOk }
set_font_ok ==
    /\ ~crashed
    /\ \E c \in SetFontOkCalls : set_font_call(c)

\* the cells font_for_cell is tried on: every kind of codepoint in every style
SelectCells ==
    { MkCell(ch, 1, b, it) :
        ch \in { 0, Ch.A, Ch.BOX, Ch.ARC, Ch.DIAGONAL, Ch.ARROW, Ch.SMILEY },
        b \in BOOLEAN, it \in BOOLEAN }
\* what the uninitialised ans of font_for_cell can hold
UbFonts == { NullFont, MediumFont, BoldFont }
\* the environments of one font_for_cell call: one deviation at a time
SelectEnvs(cell) ==
    { BaseEnv }
      \cup (IF get_fallback_font # NULL THEN FallbackEnvs ELSE {})
      \cup (IF cell.bold /\ cell.italic
            THEN { Env(TRUE, TRUE, "face_fallback", TRUE, "crash", f) : f \in UbFonts }
            ELSE {})

\* font_for_cell on one cell, as render_line calls it for each cell it does
\* not skip; line holds the cell, sel the font chosen
font_for_cell_call ==
    /\ ~crashed
    /\ \E cell \in SelectCells :
       \E env \in SelectEnvs(cell) :
       \E f \in { font_for_cell([ fallback_fonts |-> fallback_fonts, stderr |-> {},
                                  crashed |-> FALSE ], cell, env) } :
         /\ medium_font.face # NULL \/ cell.ch = 0 \/ IsBoxChar(cell.ch)
         /\ line' = [ xnum |-> 1, cells |-> << cell >> ]
         /\ sel' = << [ i |-> 0, font |-> f.font, asked |-> f.asked ] >>
         /\ fallback_fonts' = f.R.fallback_fonts
         /\ stderr' = f.R.stderr
         /\ crashed' = f.R.crashed
    /\ oob' = {}
    /\ runs' = << >>
    /\ pixels' = NoPixels
    /\ ret' = Ret("", NoVal)
    /\ UNCHANGED << fontVars, metricVars, sinkVars, sprite_tracker, box_font,
                    allocs, sent, sent_pre >>

\* the arguments of set_font that configure every style, and a symbol map
\* over ch 0 and over U+2500..U+2571
StyledFontArgs ==
    { [ get_fallback_font |-> "provider", box_drawing_function |-> "painter",
        sm |-> << >>, smf |-> << >>, pt_sz |-> 10,
        medium |-> "face_medium", bold |-> NULL, italic |-> NULL, bi |-> NULL ],
      [ get_fallback_font |-> "provider", box_drawing_function |-> "painter",
        sm |-> << >>, smf |-> << >>, pt_sz |-> 10,
        medium |-> "face_medium", bold |-> "face_bold", italic |-> "face_italic",
        bi |-> "face_bi" ],
      [ get_fallback_font |-> "provider", box_drawing_function |-> "painter",
        sm |-> << SymbolMap(0, 0, 0), SymbolMap(Ch.BOX, Ch.DIAGONAL, 0) >>,
        smf |-> << [ face |-> "face_symbol", bold |-> FALSE, italic |-> FALSE ] >>,
        pt_sz |-> 10,
        medium |-> "face_medium", bold |-> "face_bold", italic |-> NULL, bi |-> NULL ] }
\* set_font with those arguments, nothing failing in it
set_font_styled ==
    /\ ~crashed
    /\ \E a \in StyledFontArgs :
         set_font_call(SetFontCall(a, "ok", NULL, UcmOk, SymbolMap(1, 0, 0)))

(***************************************************************************)
(* freetype.c: the bitmap compositor                                       *)
(***************************************************************************)
\* the largest bitmap side, cell side and baseline the compositor is tried on
MaxBitmapSide == 3
MaxCellSide == 3
\* unsigned char *cells[10]
MAX_SPLIT_CELLS == 10

\* (ssize_t)(offset + (float)bearing / 64.f) of a value held in 1/64 pixel:
\* the conversion truncates toward zero
ToPixels(v64) == IF v64 >= 0 THEN v64 \div 64 ELSE -((-v64) \div 64)

\* a buffer of n bytes, byte k holding (seed + k) % 256
Buffer(n, seed) == [ k \in 0..(n - 1) |-> (seed + k) % 256 ]

\* ProcessedBitmap
Bitmap(start_x, width, rows, stride, seed) ==
    [ buf |-> Buffer(rows * stride, seed), start_x |-> start_x, width |-> width,
      rows |-> rows, stride |-> stride ]

\* the column and row bounds place_bitmap_in_cell computes before its loops
place_bounds(bm, cell_w, x_offset, y_offset, metrics, base) ==
    LET xoff == ToPixels(x_offset + metrics.horiBearingX)
        dest0 == IF xoff < 0 THEN 0 ELSE xoff
        extra == dest0 + bm.width - cell_w
        yoff == ToPixels(y_offset + metrics.horiBearingY)
    IN [ src_start_column |-> IF xoff < 0 THEN bm.start_x + (-xoff) ELSE bm.start_x,
         dest_start_column |->
             IF dest0 > 0 /\ dest0 + bm.width > cell_w
             THEN (IF extra > dest0 THEN 0 ELSE dest0 - extra)
             ELSE dest0,
         src_start_row |-> 0,
         dest_start_row |-> IF yoff > 0 /\ yoff > base THEN 0 ELSE base - yoff ]

\* the (source index, destination index) pairs the two loops visit when the
\* row loop runs nr times and the column loop nc times
place_pairs(bm, cell_w, b, nr, nc) ==
    { << (b.src_start_row + j) * bm.stride + (b.src_start_column + k),
         (b.dest_start_row + j) * cell_w + (b.dest_start_column + k) >> :
        j \in 0..(nr - 1), k \in 0..(nc - 1) }

\* the cell after the loops have added the source bytes, and the destination
\* indices written
place_result(cell, bm, pairs) ==
    [ cell |-> [ d \in DOMAIN cell |->
                   IF \E p \in pairs : p[2] = d
                   THEN (cell[d] + bm.buf[(CHOOSE p \in pairs : p[2] = d)[1]]) % 256
                   ELSE cell[d] ],
      written |-> { p[2] : p \in pairs } ]

\* place_bitmap_in_cell whose column loop runs to the end of the bitmap row
place_bitmap_in_cell_unclipped(cell, bm, cell_w, cell_h, x_offset, y_offset, metrics, base) ==
    LET b == place_bounds(bm, cell_w, x_offset, y_offset, metrics, base)
        nr == MAX(0, MIN(bm.rows - b.src_start_row, cell_h - b.dest_start_row))
        nc == MAX(0, bm.width - b.src_start_column)
    IN place_result(cell, bm, place_pairs(bm, cell_w, b, nr, nc))

\* place_bitmap_in_cell: sr < bm->rows && dr < cell_height bounds the rows,
\* sc < bm->width && dc < cell_width the columns
place_bitmap_in_cell(cell, bm, cell_w, cell_h, x_offset, y_offset, metrics, base) ==
    LET b == place_bounds(bm, cell_w, x_offset, y_offset, metrics, base)
        nr == MAX(0, MIN(bm.rows - b.src_start_row, cell_h - b.dest_start_row))
        nc == MAX(0, MIN(bm.width - b.src_start_column, cell_w - b.dest_start_column))
    IN place_result(cell, bm, place_pairs(bm, cell_w, b, nr, nc))

\* the bitmaps render_bitmap hands over: untrimmed, and trimmed by one column
\* on the left
Bitmaps ==
    { Bitmap(sx, w, r, sx + w + 1, 200) :
        sx \in { 0, 1 }, w \in { 0, 2, MaxBitmapSide }, r \in { 0, 1, MaxBitmapSide } }
\* x and y offsets of the shaper and bearings of the glyph, in 1/64 pixel
Offsets64 == { -130, -1, 0, 100, 200 }
Bearings64 == { -64, 70 }
CellSides == { 1, 2, MaxCellSide }
Baselines == { 0, 1, MaxCellSide }

\* the arguments of one place_bitmap_in_cell call of draw_single_glyph or
\* draw_complex_glyph, on a cell buffer of cell_w * cell_h bytes
PlaceArgs ==
    { [ op |-> "place_bitmap_in_cell", done |-> FALSE, bm |-> bm, cell_w |-> cell_w,
        cell_h |-> cell_h, x_offset |-> x_offset, y_offset |-> y_offset,
        metrics |-> [ horiBearingX |-> bx, horiBearingY |-> by ], base |-> base,
        cell |-> Buffer(cell_w * cell_h, 100), written |-> {} ] :
        bm \in Bitmaps, cell_w \in CellSides, cell_h \in { 1, MaxCellSide },
        x_offset \in Offsets64, y_offset \in Offsets64,
        bx \in Bearings64, by \in Bearings64, base \in Baselines }

\* the place_bitmap_in_cell call on the arguments held
place_bitmap_in_cell_call ==
    /\ ~crashed
    /\ pixels.op = "place_bitmap_in_cell"
    /\ ~pixels.done
    /\ \E r \in { place_bitmap_in_cell(pixels.cell, pixels.bm, pixels.cell_w, pixels.cell_h,
                                       pixels.x_offset, pixels.y_offset, pixels.metrics,
                                       pixels.base) } :
         pixels' = [ pixels EXCEPT !.done = TRUE, !.cell = r.cell, !.written = r.written ]
    /\ ret' = Ret("", NoVal)
    /\ UNCHANGED << fontVars, metricVars, sinkVars, sprite_tracker, box_font,
                    fallback_fonts, line, oob, sel, runs, allocs, sent, sent_pre,
                    stderr, crashed >>

\* the copy loops of split_cells with the cell width as the source stride
split_cells_copy_cell_stride(cell_w, cell_h, src, num_cells) ==
    LET stride == cell_w IN
    [ i \in 0..(num_cells - 1) |->
        [ d \in 0..(cell_w * cell_h - 1) |->
            src[(d \div cell_w) * stride + i * cell_w + (d % cell_w)] ] ]

\* the copy loops of split_cells: cells[i][y * cell_width + x] =
\* src[y * stride + i * cell_width + x]
split_cells_copy(cell_w, cell_h, src, num_cells) ==
    LET stride == num_cells * cell_w IN
    [ i \in 0..(num_cells - 1) |->
        [ d \in 0..(cell_w * cell_h - 1) |->
            src[(d \div cell_w) * stride + i * cell_w + (d % cell_w)] ] ]

\* num_cells cell buffers laid side by side in a canvas num_cells * cell_w wide
side_by_side(cells, cell_w, cell_h, num_cells) ==
    [ s \in 0..(num_cells * cell_w * cell_h - 1) |->
        LET y == s \div (num_cells * cell_w)
            c == s % (num_cells * cell_w)
        IN cells[c \div cell_w][y * cell_w + (c % cell_w)] ]

\* the cell buffers a canvas is made of: distinct bytes throughout
OriginalCells(cell_w, cell_h, num_cells, seed) ==
    [ i \in 0..(num_cells - 1) |->
        [ d \in 0..(cell_w * cell_h - 1) |-> (seed + i * cell_w * cell_h + d) % 256 ] ]

\* the arguments of one split_cells call: a canvas of num_cells buffers laid
\* side by side, and num_cells buffers to fill
SplitArgs ==
    { [ op |-> "split_cells", done |-> FALSE, cell_w |-> cell_w, cell_h |-> cell_h,
        num_cells |-> num_cells,
        orig |-> OriginalCells(cell_w, cell_h, num_cells, seed),
        src |-> side_by_side(OriginalCells(cell_w, cell_h, num_cells, seed),
                             cell_w, cell_h, num_cells),
        cells |-> [ i \in 0..(num_cells - 1) |-> Buffer(cell_w * cell_h, 0) ] ] :
        num_cells \in 1..(MAX_SPLIT_CELLS + 1), cell_w \in 1..MaxCellSide,
        cell_h \in 1..MaxCellSide, seed \in { 0, 250 } }

\* split_cells(cell_width, cell_height, src, *cells)
split_cells ==
    /\ ~crashed
    /\ pixels.op = "split_cells"
    /\ ~pixels.done
    /\ IF pixels.num_cells > MAX_SPLIT_CELLS
       THEN /\ ret' = Ret("ValueError: Too many cells being split", NoVal)
            /\ pixels' = [ pixels EXCEPT !.done = TRUE ]
       ELSE /\ ret' = Ret("", NoVal)
            /\ pixels' = [ pixels EXCEPT !.done = TRUE,
                             !.cells = split_cells_copy(pixels.cell_w, pixels.cell_h,
                                                        pixels.src, pixels.num_cells) ]
    /\ UNCHANGED << fontVars, metricVars, sinkVars, sprite_tracker, box_font,
                    fallback_fonts, line, oob, sel, runs, allocs, sent, sent_pre,
                    stderr, crashed >>

\* the bitmap FT_Load_Glyph leaves in the glyph slot: cols[x + 1] is the
\* strongest sample of column x, held in the last row; the pitch is one more
\* than the width
GlyphBitmap(cols, rows) ==
    [ buf |-> [ k \in 0..(rows * (Len(cols) + 1) - 1) |->
                  IF k \div (Len(cols) + 1) = rows - 1 /\ k % (Len(cols) + 1) < Len(cols)
                  THEN cols[(k % (Len(cols) + 1)) + 1] ELSE 0 ],
      start_x |-> 0, width |-> Len(cols), rows |-> rows, stride |-> Len(cols) + 1 ]

\* the columns loop of trim_borders at column x with extra columns still to
\* drop: it stops at the first column that holds a sample above 200
RECURSIVE trim_columns(_, _, _)
trim_columns(ans, x, extra) ==
    IF x > -1 /\ extra > 0
       /\ ~\E y \in 0..(ans.rows - 1) : ans.buf[x + y * ans.stride] > 200
    THEN trim_columns([ ans EXCEPT !.width = @ - 1 ], x - 1, extra - 1)
    ELSE [ ans |-> ans, extra |-> extra ]

\* trim_borders that leaves the width at what the columns loop made it
trim_borders_right_only(ans, extra) ==
    LET t == trim_columns(ans, ans.width - 1, extra)
    IN [ t.ans EXCEPT !.start_x = t.extra ]

\* trim_borders
trim_borders(ans, extra) ==
    LET t == trim_columns(ans, ans.width - 1, extra)
    IN [ t.ans EXCEPT !.start_x = t.extra, !.width = @ - t.extra ]

\* set_font_size: FT_Set_Char_Size succeeds or the Face is left as it was
set_font_size_face(self, char_width, char_height, ft_ok) ==
    IF ft_ok
    THEN [ self |-> [ self EXCEPT !.char_width = char_width, !.char_height = char_height ],
           ok |-> TRUE ]
    ELSE [ self |-> self, ok |-> FALSE ]

\* (FT_F26Dot6)((float)size * ar) with ar = max_width / width
Rescaled(size, max_width, width) == (size * max_width) \div width

\* render_bitmap with rescale = false: the glyph is loaded and, when it is
\* too wide, italic and little over, trimmed
render_bitmap_no_rescale(self, bm, load_ok, cell_w, num_cells, italic) ==
    LET max_width == cell_w * num_cells
        extra == bm.width - max_width
    IN IF ~load_ok THEN [ ok |-> FALSE, ans |-> bm, self |-> self, rescaled |-> 0 ]
       ELSE IF bm.width > max_width /\ italic /\ extra < cell_w \div 2
       THEN [ ok |-> TRUE, ans |-> trim_borders(bm, extra), self |-> self, rescaled |-> 0 ]
       ELSE [ ok |-> TRUE, ans |-> bm, self |-> self, rescaled |-> 0 ]

\* render_bitmap as first called. env: the bitmap the glyph loads to at the
\* face's size and at the reduced size, and which of the two FT_Load_Glyph
\* and the two FT_Set_Char_Size calls succeed
render_bitmap(self, env, cell_w, num_cells, italic, rescale) ==
    LET bm == env.bitmap
        max_width == cell_w * num_cells
        extra == bm.width - max_width
        shrink == set_font_size_face(self, Rescaled(self.char_width, max_width, bm.width),
                                     Rescaled(self.char_height, max_width, bm.width),
                                     env.shrink_ok)
        inner == render_bitmap_no_rescale(shrink.self, env.bitmap_small, env.reload_ok,
                                          cell_w, num_cells, italic)
        restore == set_font_size_face(inner.self, self.char_width, self.char_height,
                                      env.restore_ok)
    IN IF ~env.load_ok THEN [ ok |-> FALSE, ans |-> bm, self |-> self, rescaled |-> 0 ]
       ELSE IF bm.width > max_width /\ italic /\ extra < cell_w \div 2
       THEN [ ok |-> TRUE, ans |-> trim_borders(bm, extra), self |-> self, rescaled |-> 0 ]
       ELSE IF bm.width > max_width /\ rescale /\ self.is_scalable
               /\ extra > MAX(2, cell_w \div 3)
       THEN IF ~shrink.ok
            THEN [ ok |-> TRUE, ans |-> bm, self |-> self, rescaled |-> 0 ]
            ELSE IF ~inner.ok
            THEN [ ok |-> FALSE, ans |-> inner.ans, self |-> inner.self, rescaled |-> 1 ]
            ELSE [ ok |-> restore.ok, ans |-> inner.ans, self |-> restore.self,
                   rescaled |-> 1 ]
       ELSE [ ok |-> TRUE, ans |-> bm, self |-> self, rescaled |-> 0 ]

\* the columns of the glyphs rendered: w columns of which the last e hold
\* nothing above v (0, or 200 for a faint sample), the one before them ink,
\* the one before that nothing, the rest ink
GlyphColumns(w, e, v) ==
    [ i \in 1..w |-> IF i > w - e THEN v ELSE IF i = w - e - 1 THEN 0 ELSE 255 ]
GlyphWidths == { 5, 7, 8, 14 }
\* which calls into FreeType fail: none, or one of them
FreeTypeOutcomes ==
    { o \in [ load_ok : BOOLEAN, shrink_ok : BOOLEAN, reload_ok : BOOLEAN,
              restore_ok : BOOLEAN ] :
        Cardinality({ n \in 1..4 : ~<< o.load_ok, o.shrink_ok, o.reload_ok,
                                       o.restore_ok >>[n] }) <= 1 }

\* the arguments of one render_bitmap call of draw_single_glyph or
\* draw_complex_glyph, on a Face at 10pt
RenderArgs ==
    { [ op |-> "render_bitmap", done |-> FALSE,
        self |-> [ char_width |-> 640, char_height |-> 640, is_scalable |-> sc ],
        before |-> [ char_width |-> 640, char_height |-> 640, is_scalable |-> sc ],
        env |-> [ bitmap |-> GlyphBitmap(GlyphColumns(w, e, v), MaxBitmapSide - 1),
                  bitmap_small |-> GlyphBitmap(GlyphColumns(cell_w * num_cells + over, e, v),
                                               MaxBitmapSide - 1),
                  load_ok |-> ft.load_ok, shrink_ok |-> ft.shrink_ok,
                  reload_ok |-> ft.reload_ok, restore_ok |-> ft.restore_ok ],
        cell_w |-> cell_w, num_cells |-> num_cells, italic |-> italic,
        rescale |-> TRUE, ok |-> FALSE, rescaled |-> 0,
        ans |-> GlyphBitmap(<< >>, 0) ] :
        w \in GlyphWidths, e \in 0..2, v \in { 0, 200 }, sc \in BOOLEAN,
        cell_w \in { 4, 6 }, num_cells \in { 1, 2 }, italic \in BOOLEAN,
        over \in { 0, 1 },
        ft \in FreeTypeOutcomes }

\* the render_bitmap call on the arguments held
render_bitmap_call ==
    /\ ~crashed
    /\ pixels.op = "render_bitmap"
    /\ ~pixels.done
    /\ \E r \in { render_bitmap(pixels.self, pixels.env, pixels.cell_w, pixels.num_cells,
                                pixels.italic, pixels.rescale) } :
         pixels' = [ pixels EXCEPT !.done = TRUE, !.ok = r.ok, !.ans = r.ans,
                                   !.self = r.self, !.rescaled = r.rescaled ]
    /\ ret' = Ret("", NoVal)
    /\ UNCHANGED << fontVars, metricVars, sinkVars, sprite_tracker, box_font,
                    fallback_fonts, line, oob, sel, runs, allocs, sent, sent_pre,
                    stderr, crashed >>

\* fonts.c as loaded, and the arguments of one call into the compositor
InitPixels == InitFonts /\ pixels \in PlaceArgs \cup SplitArgs \cup RenderArgs

(***************************************************************************)
(* Specifications                                                          *)
(***************************************************************************)
\* the whole module
Next ==
    \/ sprite_map_set_limits
    \/ sprite_map_set_layout
    \/ test_sprite_position_for
    \/ send_prerendered_sprites
    \/ set_send_sprite_to_gpu
    \/ render_line
    \/ set_font
    \/ set_font_size

Spec == Init /\ [][Next]_vars

\* the Sprite Tracker and the sprite cache, driven through the test entry
\* point and the prerendered sprites
NextCache ==
    \/ sprite_map_set_limits
    \/ sprite_map_set_layout
    \/ test_sprite_position_for
    \/ send_prerendered_sprites
    \/ set_send_sprite_to_gpu

SpecCache == Init /\ [][NextCache]_vars

\* the line renderer over an installed configuration and a sink
NextRender ==
    \/ set_font_ok
    \/ render_line
    \/ set_send_sprite_to_gpu

SpecRender == Init /\ [][NextRender]_vars

\* the line renderer over a small atlas, with the test entry point to fill
\* the box font's cache
NextAtlas ==
    \/ sprite_map_set_limits
    \/ sprite_map_set_layout
    \/ test_sprite_position_for
    \/ render_line

SpecAtlas == Init /\ [][NextAtlas]_vars

\* configuration: set_font and set_font_size with everything that can fail
\* in them, over a filled cache
NextConfig ==
    \/ set_font
    \/ set_font_size
    \/ test_sprite_position_for

SpecConfig == Init /\ [][NextConfig]_vars

\* the sprite cache filled, cleared and filled again
NextClear ==
    \/ sprite_map_set_layout
    \/ test_sprite_position_for
    \/ clear_sprite_map_box

SpecClear == Init /\ [][NextClear]_vars

\* the Sprite Tracker under a run of cache misses
NextAlloc ==
    \/ sprite_map_set_limits_small
    \/ sprite_map_set_layout
    \/ test_sprite_position_for_next

SpecAlloc == Init /\ [][NextAlloc]_vars

\* the layout arithmetic of the Sprite Tracker over every small texture size
\* and cell size
NextLayout ==
    \/ sprite_map_set_limits_any
    \/ sprite_map_set_layout_any

SpecLayout == Init /\ [][NextLayout]_vars

\* the bitmap compositor of freetype.c
NextPixels ==
    \/ place_bitmap_in_cell_call
    \/ split_cells
    \/ render_bitmap_call

SpecPixels == InitPixels /\ [][NextPixels]_vars

\* font selection: font_for_cell over the configurations set_font installs
NextSelect ==
    \/ set_font_styled
    \/ font_for_cell_call

SpecSelect == Init /\ [][NextSelect]_vars

\* the line renderer on longer lines, between configuration calls
NextLines ==
    \/ set_font_ok
    \/ set_font_size
    \/ set_send_sprite_to_gpu
    \/ render_line_long

SpecLines == Init /\ [][NextLines]_vars

(***************************************************************************)
(* Properties                                                              *)
(***************************************************************************)
\* (z, y, x) of position p before (z, y, x) of position q
LexLess(p, q) ==
    \/ p[3] < q[3]
    \/ p[3] = q[3] /\ p[2] < q[2]
    \/ p[3] = q[3] /\ p[2] = q[2] /\ p[1] < q[1]

\* C1: between two set_layout calls the positions handed out by successive
\* cache misses strictly increase in the order (z, y, x)
C1_MonotoneAllocation ==
    \A i \in 1..(Len(allocs) - 1) : LexLess(allocs[i], allocs[i + 1])

\* two misses after a set_layout, the second one in a later row
C1_Witness ==
    /\ sprite_tracker.xnum > 0
    /\ Len(allocs) >= 2
    /\ allocs[1][2] < allocs[2][2]

\* what array_len the tracker may fill: z stays below it
ArrayCap(t) == MIN(65536, t.max_array_len)

\* C2: after set_layout, once xnum * max_y * min(65536, max_array_len) slots
\* are taken the next cache miss returns the atlas-full error: no call that
\* misses returns a position in a layer past the array
C2_AtlasFullReturned ==
    (sprite_tracker.xnum > 0 /\ ret.key # NULL /\ ret.miss /\ ret.err = "")
        => ret.val[3] < ArrayCap(sprite_tracker)

\* the filled entries of a sprite_map, as <<bucket, place>>
Filled(smap) ==
    UNION { { << b, i >> : i \in { j \in 1..Len(smap[b]) : smap[b][j].filled } } :
            b \in DOMAIN smap }
\* the position an entry holds
PosOf(e) == << e.x, e.y, e.z >>
\* the filled entries of key k in the box font's cache
EntriesOf(smap, k) ==
    { bp \in Filled(smap) :
        SpriteMatches(smap[bp[1]][bp[2]], k[1], k[2], FALSE) }

\* C7: a call for a key the font's cache holds returns the position the
\* entry was given, whatever other keys were asked for in between, and
\* leaves the cursor of the Sprite Tracker where it is
C7_CacheIdempotence ==
    [][ (ret'.key # NULL /\ ret'.err = "")
          => LET held == EntriesOf(box_font.sprite_map, ret'.key)
             IN IF held = {}
                THEN ret'.miss
                ELSE /\ ~ret'.miss
                     /\ \A bp \in held :
                          ret'.val = PosOf(box_font.sprite_map[bp[1]][bp[2]])
                     /\ sprite_tracker' = sprite_tracker
                     /\ box_font' = box_font ]_vars

\* a hit on the key allocated first, after a second key was allocated
C7_Witness ==
    /\ ret.key # NULL
    /\ ret.err = ""
    /\ ~ret.miss
    /\ Len(allocs) = 2
    /\ ret.val = allocs[1]

\* C8: within one font's cache no two filled entries carry the same key,
\* and two filled entries - colliding keys included - hold distinct positions
C8_DistinctEntries ==
    LET smap == box_font.sprite_map IN
    \A p \in Filled(smap), q \in Filled(smap) :
        p # q =>
          /\ ~SpriteMatches(smap[p[1]][p[2]], smap[q[1]][q[2]].glyph,
                            smap[q[1]][q[2]].extra_glyphs, smap[q[1]][q[2]].is_second)
          /\ PosOf(smap[p[1]][p[2]]) # PosOf(smap[q[1]][q[2]])

\* C9: with no sink installed a sprite that is sent is dropped and the call
\* returns
C9_NoSinkDrops ==
    current_send_sprite_to_gpu = NULL => ~crashed

\* the caches of every Font that owns one
AllSpriteMaps ==
    { medium_font.sprite_map, bold_font.sprite_map, italic_font.sprite_map,
      bi_font.sprite_map, box_font.sprite_map }
        \cup { fallback_fonts[i].sprite_map : i \in 1..Len(fallback_fonts) }
        \cup { symbol_map_fonts[i].sprite_map : i \in 1..Len(symbol_map_fonts) }

\* C3: when set_font or set_font_size has returned the five metrics, that
\* is when update_cell_metrics succeeded, no Font's sprite cache (the box
\* font's included) holds a filled entry and the cursor of the Sprite
\* Tracker is (0, 0, 0).
C3_CachesEmptyAfterMetrics ==
    (ret.err = "" /\ Len(ret.val) = 5) =>
        /\ \A smap \in AllSpriteMaps : Filled(smap) = {}
        /\ << sprite_tracker.x, sprite_tracker.y, sprite_tracker.z >> = << 0, 0, 0 >>

\* the cell selects the missing sentinel: no symbol map, no styled font and
\* no fallback font has its text
SelectsMissing(cell) ==
    /\ cell.ch # 0
    /\ ~IsBoxChar(cell.ch)
    /\ in_symbol_maps(cell.ch) = NullFont
    /\ ~has_cell_text(FontAt([ fallback_fonts |-> fallback_fonts ],
                             StyledFont(cell, BaseEnv)), cell)
    /\ \A i \in 1..Len(fallback_fonts) : ~has_cell_text(fallback_fonts[i], cell)

\* the line render_line has just handed back has no width-2 cell and each of
\* its cells selects a sentinel font
SentinelLine ==
    /\ line # NoLine
    /\ ~crashed
    /\ \A i \in 1..line.xnum :
         /\ line.cells[i].width # 2
         /\ \/ line.cells[i].ch = 0
            \/ IsBoxChar(line.cells[i].ch)
            \/ SelectsMissing(line.cells[i])

\* C4: after render_line on a line of sentinel cells with no width-2 cell,
\* and no allocation failure in the call, every cell of the line holds
\* (0, 0, 0) if it is blank, (MISSING_GLYPH, 0, 0) if it selects the missing
\* sentinel, and the position of the box font's cache entry for its glyph if
\* it is a box-drawing cell.
C4_SentinelCoordinates ==
    (SentinelLine /\ sprite_map_set_error(1) \notin stderr) =>
        \A i \in 1..line.xnum :
          LET c == line.cells[i]
              held == EntriesOf(box_font.sprite_map, << box_glyph_id(c.ch), 0 >>)
          IN IF c.ch = 0 THEN c.sprite = << 0, 0, 0 >>
             ELSE IF IsBoxChar(c.ch)
             THEN /\ held # {}
                  /\ \A bp \in held : c.sprite = PosOf(box_font.sprite_map[bp[1]][bp[2]])
             ELSE c.sprite = << MISSING_GLYPH, 0, 0 >>

\* C5: no cell render_line has written holds a position whose z is
\* min(65536, max_array_len) or more.
C5_NoCellPastArray ==
    \A i \in 1..Len(line.cells) :
        line.cells[i].sprite # Stale =>
            line.cells[i].sprite[3] < ArrayCap(sprite_tracker)

\* C6: a call of set_font or set_font_size that fails leaves the cell
\* metrics, the styled, fallback and symbol fonts and maps with their sprite
\* caches, the fallback provider, the box painter, the box font's cache and
\* the Sprite Tracker as they were before the call.
C6_FailedConfigKeepsPrevious ==
    [][ (ret'.err # "" /\ ret'.key = NULL) =>
            UNCHANGED << medium_font, bold_font, italic_font, bi_font, fallback_fonts,
                         symbol_maps, symbol_map_fonts, get_fallback_font,
                         box_drawing_function, cell_width, cell_height, baseline,
                         underline_position, underline_thickness, box_font,
                         sprite_tracker >> ]_vars

\* C10: the box font's cache is never cleared; over the whole run no two
\* sprites handed to the GPU sink by render_box_cell are of one cache slot,
\* and each was sent with the position its slot, filled and marked rendered,
\* holds.
C10_SentOncePerSlot ==
    /\ \A i, j \in 1..Len(sent) : i # j => sent[i].glyph # sent[j].glyph
    /\ \A i \in 1..Len(sent) :
         LET held == EntriesOf(box_font.sprite_map, << sent[i].glyph, 0 >>)
         IN /\ held # {}
            /\ \A bp \in held :
                 /\ box_font.sprite_map[bp[1]][bp[2]].rendered
                 /\ PosOf(box_font.sprite_map[bp[1]][bp[2]])
                      = << sent[i].x, sent[i].y, sent[i].z >>

\* one sprite was sent and the line rendered last shows its glyph in two cells
C10_Witness ==
    /\ Len(sent) = 1
    /\ line.xnum = 2
    /\ \A i \in 1..2 :
         /\ IsBoxChar(line.cells[i].ch)
         /\ line.cells[i].sprite = << sent[1].x, sent[1].y, sent[1].z >>

\* C11: in the line render_line has handed back, the cell after a cell of
\* width 2 had no font selected for it and no run was started at it.
C11_WideCellSkipsNext ==
    \A i \in 1..(line.xnum - 1) :
        line.cells[i].width = 2 =>
            /\ \A n \in 1..Len(sel) : sel[n].i # i
            /\ \A n \in 1..Len(runs) : runs[n].first # i

\* a wide cell followed by a box cell was rendered: one selection, one run
C11_Witness ==
    /\ ~crashed
    /\ line.xnum = 2
    /\ line.cells[1].width = 2
    /\ IsBoxChar(line.cells[2].ch)
    /\ Len(sel) = 1
    /\ Len(runs) = 1

\* font_for_cell has just been called on the cell line holds
Picked == line.xnum = 1 /\ Len(sel) = 1 /\ Len(runs) = 0
PickedCell == line.cells[1]
\* the Font the cell's bold and italic bits name, medium when that styled
\* Font has no face
StyleNamed(cell) ==
    LET named == IF cell.bold /\ cell.italic THEN BiFont
                 ELSE IF cell.bold THEN BoldFont
                 ELSE IF cell.italic THEN ItalicFont
                 ELSE MediumFont
    IN IF FontAt([ fallback_fonts |-> fallback_fonts ], named).face = NULL
       THEN MediumFont ELSE named
\* the cell is text no symbol map takes
PlainText(cell) ==
    cell.ch # 0 /\ ~IsBoxChar(cell.ch) /\ in_symbol_maps(cell.ch) = NullFont

\* C12: for a cell that is not blank, not a box codepoint, in no symbol map,
\* and whose text the face named by its style covers, font_for_cell returns
\* the Font of that style: medium, bold, italic or bi, and medium when the
\* styled Font has no face.
C12_StyleSelectsFace ==
    ( /\ Picked
      /\ PlainText(PickedCell)
      /\ has_cell_text(FontAt([ fallback_fonts |-> fallback_fonts ],
                              StyleNamed(PickedCell)), PickedCell) )
        => /\ ~crashed
           /\ sel[1].font = StyleNamed(PickedCell)

\* U+2500..U+2570, U+2574..U+257F, U+E0B0, U+E0B2
BoxCodepoints == (9472..9584) \cup (9588..9599) \cup { 57520, 57522 }

\* the codepoints around the box drawing block and the powerline arrows
BoxRangeProbe == (9460..9610) \cup (57510..57530)

\* C13: font_for_cell returns the blank sentinel for ch 0 and the box
\* sentinel for every codepoint of U+2500..U+2570, U+2574..U+257F, U+E0B0,
\* U+E0B2, whatever the style bits, the symbol maps and the faces are, and
\* the box sentinel for no other codepoint.
C13_SentinelCodepoints ==
    Picked =>
        /\ PickedCell.ch = 0 => sel[1].font = BlankFont
        /\ PickedCell.ch \in BoxCodepoints <=> sel[1].font = BoxFont
        /\ \A ch \in BoxRangeProbe : IsBoxChar(ch) <=> ch \in BoxCodepoints

\* a bold cell of U+2570, which a symbol map covers, selected the box sentinel
C13_Witness ==
    /\ Picked
    /\ PickedCell.ch = Ch.ARC
    /\ PickedCell.bold
    /\ in_symbol_maps(Ch.ARC) # NullFont
    /\ sel[1].font = BoxFont

\* the places in fallback_fonts of the fonts adopted for cells like this one
Adopted(cell) ==
    { n \in 1..Len(fallback_fonts) :
        /\ fallback_fonts[n].bold = cell.bold
        /\ fallback_fonts[n].italic = cell.italic
        /\ has_cell_text(fallback_fonts[n], cell) }
\* no styled face has the cell's text
NoBaseFace(cell) ==
    \A f \in { medium_font, bold_font, italic_font, bi_font } : ~has_cell_text(f, cell)

\* C14: a font_for_cell call on a cell no base or symbol face covers, for
\* which a fallback Font was adopted before, returns that Font, does not call
\* the provider and leaves the fallback list as it is.
C14_FallbackAskedOnce ==
    [][ ( /\ line'.xnum = 1 /\ Len(sel') = 1 /\ Len(runs') = 0
          /\ ~crashed'
          /\ PlainText(line'.cells[1])
          /\ NoBaseFace(line'.cells[1])
          /\ Adopted(line'.cells[1]) # {} )
        => /\ sel'[1].font[1] = "fallback_fonts"
           /\ sel'[1].font[2] + 1 \in Adopted(line'.cells[1])
           /\ ~sel'[1].asked
           /\ fallback_fonts' = fallback_fonts ]_vars

\* a bold cell no face covers was given the fallback Font adopted for it
\* earlier, the second of the list, and the provider was not called
C14_Witness ==
    /\ Picked
    /\ PickedCell.bold
    /\ NoBaseFace(PickedCell)
    /\ sel[1].font = FontPtr("fallback_fonts", 1)
    /\ ~sel[1].asked
    /\ Len(fallback_fonts) = 2

\* the sentinels, and the Fonts that hold a face
SelectableFonts ==
    { BlankFont, BoxFont, MissingFont }
      \cup { f \in { MediumFont, BoldFont, ItalicFont, BiFont } :
               FontAt([ fallback_fonts |-> fallback_fonts ], f).face # NULL }
      \cup { FontPtr("fallback_fonts", n - 1) : n \in 1..Len(fallback_fonts) }
      \cup { FontPtr("symbol_map_fonts", n - 1) : n \in 1..Len(symbol_map_fonts) }

\* C15: a font_for_cell call in which no allocation fails returns, for every
\* cell and every installed configuration, the blank, box or missing
\* sentinel or a configured Font.
C15_SelectionNeverFails ==
    (Picked /\ "fatal: Out of memory" \notin stderr) =>
        /\ ~crashed
        /\ sel[1].font \in SelectableFonts

\* the last call was sprite_map_set_layout
LaidOut == ret.layout # NULL

\* C16: after set_layout(w, h) under any configured limits, xnum * w is at
\* most max_texture_size when w is, and max_y * h is at most max_texture_size
\* when h is.
C16_LayoutCoherence ==
    LaidOut =>
        /\ ret.layout[1] <= sprite_tracker.max_texture_size =>
              sprite_tracker.xnum * ret.layout[1] <= sprite_tracker.max_texture_size
        /\ ret.layout[2] <= sprite_tracker.max_texture_size =>
              sprite_tracker.max_y * ret.layout[2] <= sprite_tracker.max_texture_size

\* a layout of several columns and rows whose cells do not divide the texture
C16_Witness ==
    /\ LaidOut
    /\ sprite_tracker.xnum > 1
    /\ sprite_tracker.max_y > 1
    /\ sprite_tracker.xnum * ret.layout[1] < sprite_tracker.max_texture_size
    /\ sprite_tracker.max_y * ret.layout[2] < sprite_tracker.max_texture_size

\* C16 as stated: the two products are at most max_texture_size for every
\* w and h, those greater than max_texture_size included.
C16_LayoutCoherenceAnySize ==
    LaidOut =>
        /\ sprite_tracker.xnum * ret.layout[1] <= sprite_tracker.max_texture_size
        /\ sprite_tracker.max_y * ret.layout[2] <= sprite_tracker.max_texture_size

\* C17: in every state of the Sprite Tracker, from process start on, the
\* cursor satisfies 0 <= x < xnum and 0 <= y < max_y.
C17_CursorInLayout ==
    /\ 0 <= sprite_tracker.x /\ sprite_tracker.x < sprite_tracker.xnum
    /\ 0 <= sprite_tracker.y /\ sprite_tracker.y < sprite_tracker.max_y

\* the same once a layout has been set
C17_CursorInLayoutOnceLaidOut ==
    sprite_tracker.xnum > 0 => C17_CursorInLayout

\* the last call was place_bitmap_in_cell
Placed == pixels.op = "place_bitmap_in_cell" /\ pixels.done

\* C18: for every bitmap, offset, bearing (positive or negative), baseline
\* and cell size, place_bitmap_in_cell writes only to destination indices
\* 0 .. total_width * cell_h - 1.
C18_WritesInsideCell ==
    Placed => pixels.written \subseteq 0..(pixels.cell_w * pixels.cell_h - 1)

\* a bitmap wider than the cell and as tall, with a positive x and a negative
\* y displacement, is clipped to the cell and reaches the cell's last byte
C18_Witness ==
    /\ Placed
    /\ pixels.bm.width > pixels.cell_w
    /\ pixels.bm.rows >= pixels.cell_h
    /\ ToPixels(pixels.x_offset + pixels.metrics.horiBearingX) > 0
    /\ ToPixels(pixels.y_offset + pixels.metrics.horiBearingY) < 0
    /\ pixels.cell_w * pixels.cell_h - 1 \in pixels.written

\* the last call was a split_cells that returned None
Split == pixels.op = "split_cells" /\ pixels.done /\ ret.err = ""

\* C19: for N in 1..10, split_cells on the canvas made of N cell buffers
\* laid side by side reproduces each of the N buffers byte for byte.
C19_SplitRoundTrip ==
    Split => pixels.cells = pixels.orig

\* ten cells of more than one row and more than one column were split
C19_Witness ==
    /\ Split
    /\ pixels.num_cells = MAX_SPLIT_CELLS
    /\ pixels.cell_w > 1
    /\ pixels.cell_h > 1
    /\ pixels.cells = pixels.orig

\* the cell index at which run n begins when the runs are laid end to end
RunStart[n \in 1..(MaxLineLen + 1)] ==
    IF n = 1 THEN 0 ELSE RunStart[n - 1] + runs[n - 1].count

\* the runs, each taken to begin at the cell start(n), cover the line in
\* order, hold only cells for which font_for_cell chose the run's font, and
\* change font from one run to the next
RunsPartition(start(_)) ==
    /\ Len(runs) >= 1
    /\ \A n \in 1..Len(runs) :
         /\ runs[n].count >= 1
         /\ \A s \in 1..Len(sel) :
              (start(n) <= sel[s].i /\ sel[s].i < start(n) + runs[n].count)
                  => sel[s].font = runs[n].font
         /\ n < Len(runs) => runs[n + 1].font # runs[n].font
    /\ start(Len(runs)) + runs[Len(runs)].count = line.xnum

\* C20: in the line render_line has handed back, every render_run call was
\* given the first cell of the run accumulated so far and its cell count;
\* the runs follow one another from cell 0 to the end of the line, every
\* cell of a run that had a font selected had the run's font selected, and
\* adjacent runs have different fonts.
C20_RunsPartitionCells ==
    (line.xnum > 0 /\ ~crashed) =>
        /\ RunsPartition(LAMBDA n : runs[n].first)
        /\ \A n \in 1..Len(runs) : runs[n].first = RunStart[n]

\* the same with each run taken to begin where the one before it ended,
\* whatever cell render_run was given
C20_RunsPartitionByCount ==
    (line.xnum > 0 /\ ~crashed) => RunsPartition(LAMBDA n : RunStart[n])

\* the face a style Font holds after set_font was given face (NULL: omitted)
\* for it, and the Fonts the symbol map faces of the arguments make
RosterIs(a) ==
    /\ medium_font'.face = a.medium
    /\ bold_font'.face = a.bold
    /\ italic_font'.face = a.italic
    /\ bi_font'.face = a.bi
    /\ fallback_fonts' = << >>
    /\ symbol_maps' = a.sm
    /\ Len(symbol_map_fonts') = Len(a.smf)
    /\ \A i \in 1..Len(a.smf) :
         /\ symbol_map_fonts'[i].face = a.smf[i].face
         /\ symbol_map_fonts'[i].bold = a.smf[i].bold
         /\ symbol_map_fonts'[i].italic = a.smf[i].italic
    /\ get_fallback_font' = a.get_fallback_font
    /\ box_drawing_function' = a.box_drawing_function

\* a set_font step with arguments a in which nothing fails
SetFontStep(a) == set_font_call(SetFontCall(a, "ok", NULL, UcmOk, SymbolMap(1, 0, 0)))

\* C21: set_font over any installed configuration, one with symbol map
\* faces and adopted fallback faces included, completes, and afterwards the
\* roster is exactly the arguments: omitted styles unconfigured, the
\* fallback list empty, the symbol maps and their faces those passed.
C21_SetFontReplacesRoster ==
    [][ \A a \in StyledFontArgs : SetFontStep(a) => (~crashed' /\ RosterIs(a)) ]_vars

\* the same over a configuration that has no symbol map faces
C21_SetFontReplacesPlainRoster ==
    [][ \A a \in StyledFontArgs :
          (SetFontStep(a) /\ Len(symbol_map_fonts) = 0) => (~crashed' /\ RosterIs(a)) ]_vars

\* the position the k-th allocation (k = 0, 1, ...) of a layout of xnum
\* columns and max_y rows is expected at
KthPosition(k, xnum, max_y) ==
    << k % xnum, (k \div xnum) % max_y, k \div (xnum * max_y) >>

\* the cursor n allocations after t
RECURSIVE CursorAfter(_, _)
CursorAfter(t, n) ==
    IF n = 0 THEN t
    ELSE IF n = 1 THEN do_increment(t).tracker
    ELSE Local(CursorAfter(t, n \div 2), LAMBDA t1 : CursorAfter(t1, n - n \div 2))

\* limits 1000/1000 and cells of 8 x 16: the 125th slot is (124, 0, 0), the
\* 126th is (0, 1, 0), and ynum is then 2
ExampleLayout ==
    LET t0 == sprite_tracker_set_layout(
                  sprite_tracker_set_limits(InitTracker, 1000, 1000), 8, 16)
        t124 == CursorAfter(t0, 124)
        t125 == CursorAfter(t124, 1)
        t126 == CursorAfter(t125, 1)
    IN /\ << t124.x, t124.y, t124.z >> = << 124, 0, 0 >>
       /\ << t125.x, t125.y, t125.z >> = << 0, 1, 0 >>
       /\ sprite_tracker_current_layout(t126)[2] = 2

C23_AllocationsInsideEnvelope ==
    [][ sprite_tracker'.xnum > 0 =>
          LET env == sprite_tracker_current_layout(sprite_tracker') IN
          /\ \A k \in 1..Len(allocs') :
               /\ allocs'[k][1] < env[1]
               /\ allocs'[k][2] < env[2]
               /\ allocs'[k][3] <= env[3]
          /\ env[2] <= sprite_tracker'.max_y
          /\ (sprite_tracker.xnum > 0 /\ ret'.layout = NULL) =>
                env[2] >= sprite_tracker_current_layout(sprite_tracker)[2] ]_vars

\* three misses in a layout of two columns and four rows: the third is in
\* the second row and the envelope is two rows high
C23_Witness ==
    /\ sprite_tracker.xnum = 2
    /\ sprite_tracker.max_y = 4
    /\ Len(allocs) = 3
    /\ allocs[3] = << 0, 1, 0 >>
    /\ sprite_tracker_current_layout(sprite_tracker) = << 2, 2, 0 >>

\* the length of every chain of a sprite_map
ChainLengths(smap) == [ b \in DOMAIN smap |-> Len(smap[b]) ]
\* the bucket of a key holds an entry clear_sprite_map left unfilled, and
\* no entry for the key
Refillable(smap, key) ==
    LET chain == smap[key[1] % SPRITE_MAP_SIZE] IN
    /\ \E i \in 1..Len(chain) : ~chain[i].filled
    /\ \A i \in 1..Len(chain) :
         chain[i].filled => ~SpriteMatches(chain[i], key[1], key[2], FALSE)

\* C24: clear_sprite_map leaves every head and chain node unfilled,
\* unrendered and at zero coordinates, keeps every chain's length and leaves
\* the Sprite Tracker alone; position_for on a key whose chain has a cleared
\* entry then takes the position of the cursor and fills an existing entry,
\* allocating no node.
C24_ClearKeepsNodes ==
    [][ /\ clear_sprite_map_box =>
             /\ \A b \in DOMAIN box_font'.sprite_map :
                  \A i \in 1..Len(box_font'.sprite_map[b]) :
                     LET e == box_font'.sprite_map[b][i] IN
                     ~e.filled /\ ~e.rendered /\ << e.x, e.y, e.z >> = << 0, 0, 0 >>
             /\ ChainLengths(box_font'.sprite_map) = ChainLengths(box_font.sprite_map)
             /\ sprite_tracker' = sprite_tracker
        /\ \A key \in TestKeys, calloc_ok \in BOOLEAN :
             (test_sprite_position_for_call(key, calloc_ok)
                /\ Refillable(box_font.sprite_map, key)) =>
                 /\ ret'.err = ""
                 /\ ret'.miss
                 /\ ret'.val = << sprite_tracker.x, sprite_tracker.y, sprite_tracker.z >>
                 /\ ChainLengths(box_font'.sprite_map) = ChainLengths(box_font.sprite_map)
      ]_vars

\* two keys of one bucket cached, cleared and cached again: four positions
\* handed out, the fourth in the one chain node
C24_Witness ==
    /\ Len(allocs) = 4
    /\ \E b \in DOMAIN box_font.sprite_map :
         /\ Len(box_font.sprite_map[b]) = 2
         /\ box_font.sprite_map[b][2].filled
         /\ << box_font.sprite_map[b][2].x, box_font.sprite_map[b][2].y,
               box_font.sprite_map[b][2].z >> = allocs[4]
    /\ ret.miss

\* the last call was a render_bitmap that took the italic trim path
TrimPath ==
    /\ pixels.op = "render_bitmap" /\ pixels.done /\ pixels.ok
    /\ pixels.italic
    /\ pixels.env.bitmap.width > pixels.cell_w * pixels.num_cells
    /\ pixels.env.bitmap.width - pixels.cell_w * pixels.num_cells < pixels.cell_w \div 2

\* how many columns the rendered bitmap is too wide by
TrimExtra == pixels.env.bitmap.width - pixels.cell_w * pixels.num_cells

\* how many right-hand columns of the rendered bitmap hold no sample above
\* 200, counted from the right up to the first that does, at most TrimExtra
TrimmedColumns ==
    LET bm == pixels.env.bitmap
        empty(x) == \A y \in 0..(bm.rows - 1) : bm.buf[x + y * bm.stride] <= 200
        fits == { t \in 0..TrimExtra : \A j \in 1..t : empty(bm.width - j) }
    IN CHOOSE t \in fits : \A u \in fits : u <= t

\* C25: on the italic trim path of render_bitmap the resulting width is the
\* rendered width minus the number of right-hand empty columns trimmed, and
\* start_x is the part of extra that was not trimmed.
C25_TrimWidth ==
    TrimPath =>
        /\ pixels.ans.width = pixels.env.bitmap.width - TrimmedColumns
        /\ pixels.ans.start_x = TrimExtra - TrimmedColumns

\* on that path start_x is the part of extra that was not trimmed, and the
\* width is the rendered width minus extra
C25_TrimWidthLessExtra ==
    TrimPath =>
        /\ pixels.ans.width = pixels.env.bitmap.width - TrimExtra
        /\ pixels.ans.start_x = TrimExtra - TrimmedColumns

\* the last call was render_bitmap
Rendered == pixels.op = "render_bitmap" /\ pixels.done

\* C26: render_bitmap rescales at most once per call, and when it returns,
\* with success or with failure, the face's char_width and char_height are
\* what they were before the call.
C26_RescaleRestoresSize ==
    Rendered =>
        /\ pixels.rescaled <= 1
        /\ pixels.self.char_width = pixels.before.char_width
        /\ pixels.self.char_height = pixels.before.char_height

\* the same for the calls that return success
C26_RescaleRestoresSizeOnSuccess ==
    (Rendered /\ pixels.ok) =>
        /\ pixels.rescaled <= 1
        /\ pixels.self.char_width = pixels.before.char_width
        /\ pixels.self.char_height = pixels.before.char_height

\* how many times the sprite of the box font's cache entry e was handed to
\* the GPU sink at the entry's coordinates
TimesSent(e, log) ==
    Cardinality({ i \in 1..Len(log) :
                    log[i] = [ glyph |-> e.glyph, x |-> e.x, y |-> e.y, z |-> e.z ] })

\* C27: whatever the box painter call does, a box font cache slot that is
\* marked rendered has had its sprite sent to the GPU sink, at the slot's
\* coordinates, exactly once.
C27_RenderedWasSent ==
    LET smap == box_font.sprite_map IN
    \A p \in Filled(smap) :
        smap[p[1]][p[2]].rendered => TimesSent(smap[p[1]][p[2]], sent) = 1

\* the slots a step marks rendered, when the painter returned its bitmap and
\* a sink took it, were sent once
C27_RenderedWasSentWhenPainted ==
    [][ ( /\ "box_drawing_function raised" \notin stderr'
          /\ current_send_sprite_to_gpu # NULL
          /\ ~(current_send_sprite_to_gpu = "python_send_to_gpu"
               /\ python_send_to_gpu_impl = NULL) )
        => \A p \in Filled(box_font'.sprite_map) :
              ( /\ box_font'.sprite_map[p[1]][p[2]].rendered
                /\ ~(p \in Filled(box_font.sprite_map)
                     /\ box_font.sprite_map[p[1]][p[2]].rendered) )
              => TimesSent(box_font'.sprite_map[p[1]][p[2]], sent') = 1 ]_vars

\* the sprite caches, one per Font, the box font's third
SpriteMapList ==
    << medium_font.sprite_map, bold_font.sprite_map, box_font.sprite_map,
       italic_font.sprite_map, bi_font.sprite_map >>
        \o [ i \in 1..Len(fallback_fonts) |-> fallback_fonts[i].sprite_map ]
        \o [ i \in 1..Len(symbol_map_fonts) |-> symbol_map_fonts[i].sprite_map ]

\* C28: over any sequence of set_font, set_font_size and render_line calls
\* no two filled sprite cache entries, of one font or of two fonts, the box
\* font included, hold the same atlas position (x, y, z).
C28_PositionsUnique ==
    \A m \in 1..Len(SpriteMapList), n \in 1..Len(SpriteMapList) :
      \A p \in Filled(SpriteMapList[m]), q \in Filled(SpriteMapList[n]) :
        << m, p >> # << n, q >>
          => PosOf(SpriteMapList[m][p[1]][p[2]]) # PosOf(SpriteMapList[n][q[1]][q[2]])

\* the same for the entries filled since the layout was last set: the
\* positions claimed since then are pairwise distinct
C28_PositionsUniqueSinceLayout ==
    \A i \in 1..Len(allocs), j \in 1..Len(allocs) : i # j => allocs[i] # allocs[j]

\* C29: render_line writes sprite coordinates only to cells 0..xnum-1 of
\* the line it is given, whatever the line holds.
C29_WritesInsideLine ==
    oob = {}

\* a line where every cell's font is the font of the cell before it (one
\* run) has no cell outside it written
C29_WritesInsideLineOneRun ==
    Len(runs) <= 1 => oob = {}

\* C30: only the right half of a wide glyph is skipped: font_for_cell is
\* evaluated for the first cell and for every cell whose predecessor does
\* not have width 2.
C30_OnlyRightHalfSkipped ==
    ~crashed =>
      \A i \in 0..(line.xnum - 1) :
        (i = 0 \/ WIDTH(line.cells[i]) # 2)
          => \E j \in 1..Len(sel) : sel[j].i = i

\* on a line with no wide cell font_for_cell is evaluated for every cell
C30_NarrowLineAllSelected ==
    (~crashed /\ \A i \in 1..line.xnum : WIDTH(line.cells[i]) # 2)
      => \A i \in 0..(line.xnum - 1) : \E j \in 1..Len(sel) : sel[j].i = i

====
